---- MODULE Spec2Model ----
(***************************************************************************)
(* Verification model of libvgio: the StreamMultiplexer (N producers, one  *)
(* writer thread), and the type-tagged group framing written by            *)
(* MessageEmitter and read back by MessageIterator.                        *)
(*                                                                         *)
(* Strings are kept run-length encoded: a string is a sequence of runs     *)
(* <<v, n>> (n >= 1 copies of the element v, neighbouring runs differ in   *)
(* v).  Every operation on them (length, substr, append) is the operation  *)
(* on the plain byte string, so the sizes of the source (640 KiB queue     *)
(* items, 64 KiB blocks, 10^9 byte messages) are used unscaled.            *)
(***************************************************************************)
EXTENDS Integers, Sequences, FiniteSets, TLC

(***************************************************************************)
(* Strings (std::string), run-length encoded.                              *)
(***************************************************************************)

\* string::size()
RECURSIVE RLen(_)
RLen(s) ==
    IF s = <<>> THEN 0 ELSE Head(s)[2] + RLen(Tail(s))

\* string::append / operator<< of one string onto another
RCat(a, b) ==
    IF a = <<>> THEN b
    ELSE IF b = <<>> THEN a
    ELSE IF a[Len(a)][1] = b[1][1]
         THEN SubSeq(a, 1, Len(a) - 1)
                \o << <<b[1][1], a[Len(a)][2] + b[1][2]>> >> \o Tail(b)
         ELSE a \o b

\* string::substr(0, n)
RECURSIVE RTake(_, _)
RTake(s, n) ==
    IF n <= 0 \/ s = <<>> THEN <<>>
    ELSE IF Head(s)[2] <= n
         THEN RCat(<<Head(s)>>, RTake(Tail(s), n - Head(s)[2]))
         ELSE << <<Head(s)[1], n>> >>

\* string::substr(n)
RECURSIVE RDrop(_, _)
RDrop(s, n) ==
    IF n <= 0 \/ s = <<>> THEN s
    ELSE IF Head(s)[2] <= n
         THEN RDrop(Tail(s), n - Head(s)[2])
         ELSE << <<Head(s)[1], Head(s)[2] - n>> >> \o Tail(s)

\* n copies of the element v
RRun(v, n) ==
    IF n <= 0 THEN <<>> ELSE << <<v, n>> >>

\* The elements of a string, as a set.
RElems(s) ==
    {s[i][1] : i \in 1..Len(s)}

Max(a, b) == IF a >= b THEN a ELSE b
Min(a, b) == IF a <= b THEN a ELSE b

(***************************************************************************)
(* StreamMultiplexer                                                       *)
(***************************************************************************)

\* Number of producer threads the multiplexer is constructed for.
max_threads == 2
\* Number of write calls the producers make on their thread streams, in all.
MaxWrites == 3
\* Number of register_barrier calls the producers make, in all.
MaxBarriers == 1
\* Number of discard_bytes calls the producers make, in all.
MaxDiscards == 1

MIN_QUEUE_ITEM_BYTES == 655360
RING_BUFFER_SIZE == 10

Threads == 0..(max_threads - 1)
Slots == 0..(RING_BUFFER_SIZE - 1)
\* Sizes of a single write to a thread stream, and counts for discard_bytes.
WriteSizes == {1, MIN_QUEUE_ITEM_BYTES}

VARIABLES
    \* --- StreamMultiplexer fields ---
    backing_stream,             \* the bytes written to the backing ostream
    thread_streams,             \* [t -> [str, tellp]]: buffer and put pointer
    thread_breakpoint_cursors,
    thread_queues,              \* [t -> [slot -> string]]
    thread_queue_empty_slots,
    thread_queue_filled_slots,
    thread_queue_byte_counts,
    thread_queue_mutexes,       \* [t -> "free" | "producer" | "writer"]
    writer_stop,
    \* --- control state of the threads ---
    pc,                         \* [t -> where producer t is]
    w_pc,                       \* where the writer thread is
    w_i,                        \* the writer's loop index i
    \* --- history of what the producers did (not program state) ---
    nwrites,                    \* [t -> number of write calls so far]
    nbarriers,                  \* number of register_barrier calls so far
    ndiscards,                  \* number of discard_bytes calls so far
    seg,                        \* [t -> number of the segment being written]
    committed,                  \* [t -> bytes before t's last breakpoint]
    pending,                    \* [t -> bytes since t's last breakpoint]
    bp_content,                 \* [t -> unqueued buffer as of the last breakpoint]
    discarded,                  \* write calls some byte of which was discarded
    barrier_seen,               \* [t -> nwrites when t's last barrier returned]
    \* --- MessageEmitter, its output, MessageIterator ---
    emitter,                    \* the MessageEmitter's fields
    sink,                       \* the output stream and the BGZF writer on it
    handler_calls,              \* the calls made to the group listeners
    iter,                       \* the MessageIterator's fields and its BGZF reader
    msgHist,                    \* history of the calls made (not program state)
    \* --- VPKG: the registry and the calls made on the stream ---
    vpkg,
    frame,                      \* the start of a group being written
    \* --- the parallel batch loops ---
    batch_size,
    max_batches_outstanding,
    batches_outstanding,
    batch,                      \* the batch the main thread is filling
    first_message,
    do_single_threaded,
    more_data,
    message_it,                 \* what the MessageIterator has yet to yield
    tasks,                      \* the batches given to OpenMP tasks, not yet run
    main_pc,                    \* where the thread of the single region is
    lambda_calls,               \* history: the callbacks run (not program state)
    \* --- BlockedGzipInputStream and the calls made on it ---
    gz,
    \* --- the Registry's tables and the registrations made ---
    tables

muxVars == <<backing_stream, thread_streams, thread_breakpoint_cursors,
             thread_queues, thread_queue_empty_slots, thread_queue_filled_slots,
             thread_queue_byte_counts, thread_queue_mutexes, writer_stop,
             pc, w_pc, w_i>>
muxHist == <<nwrites, nbarriers, ndiscards, seg, committed, pending,
             bp_content, discarded, barrier_seen>>
msgVars == <<emitter, sink, handler_calls, iter, msgHist>>
vpkgVars == <<vpkg, frame>>
pipeVars == <<batch_size, max_batches_outstanding, batches_outstanding, batch,
              first_message, do_single_threaded, more_data, message_it, tasks,
              main_pc, lambda_calls>>

gzVars == <<gz>>
regVars == <<tables>>

vars == <<muxVars, muxHist, msgVars, vpkgVars, pipeVars, gzVars, regVars>>

\* stringstream::tellp()
tellp(t) == thread_streams[t].tellp

\* our_stream.str().substr(0, item_bytes)
StreamContents(t) == RTake(thread_streams[t].str, tellp(t))

\* operator<< on a thread stream: overwrite at the put pointer, then advance
StreamPut(s, data) ==
    [str   |-> RCat(RCat(RTake(s.str, s.tellp), data),
                    RDrop(s.str, s.tellp + RLen(data))),
     tellp |-> s.tellp + RLen(data)]

\* stringstream::seekp(p)
StreamSeekp(s, p) == [s EXCEPT !.tellp = p]

\* our_stream.str(std::string()); our_stream.clear()
EmptyStream == [str |-> <<>>, tellp |-> 0]

\* A ring_buffer_full that forgets the wrap of the empty cursor.
ring_buffer_full_unwrapped(t) ==
    thread_queue_empty_slots[t] + 1 = thread_queue_filled_slots[t]

\* A ring_buffer_full that finds room always.
ring_buffer_never_full(t) == FALSE

ring_buffer_full(t) ==
    LET empty  == thread_queue_empty_slots[t]
        filled == thread_queue_filled_slots[t]
    IN  empty + 1 = filled \/ (empty + 1 = RING_BUFFER_SIZE /\ filled = 0)

ring_buffer_empty(t) ==
    thread_queue_empty_slots[t] = thread_queue_filled_slots[t]

\* The cursor ring_buffer_push / ring_buffer_pop leave behind.
RingAdvance(c) == IF c + 1 = RING_BUFFER_SIZE THEN 0 ELSE c + 1

ring_buffer_peek(t) == thread_queues[t][thread_queue_filled_slots[t]]

\* Number of items queued in t's ring.
RingCount(t) ==
    (thread_queue_empty_slots[t] - thread_queue_filled_slots[t]
       + RING_BUFFER_SIZE) % RING_BUFFER_SIZE

MuxInit ==
    /\ backing_stream = <<>>
    /\ thread_streams = [t \in Threads |-> EmptyStream]
    /\ thread_breakpoint_cursors = [t \in Threads |-> 0]
    /\ thread_queues = [t \in Threads |-> [s \in Slots |-> <<>>]]
    /\ thread_queue_empty_slots = [t \in Threads |-> 0]
    /\ thread_queue_filled_slots = [t \in Threads |-> 0]
    /\ thread_queue_byte_counts = [t \in Threads |-> 0]
    /\ thread_queue_mutexes = [t \in Threads |-> "free"]
    /\ writer_stop = FALSE
    /\ pc = [t \in Threads |-> "idle"]
    /\ w_pc = "loop"
    /\ w_i = 0
    /\ nwrites = [t \in Threads |-> 0]
    /\ nbarriers = 0
    /\ ndiscards = 0
    /\ seg = [t \in Threads |-> 0]
    /\ committed = [t \in Threads |-> <<>>]
    /\ pending = [t \in Threads |-> <<>>]
    /\ bp_content = [t \in Threads |-> <<>>]
    /\ discarded = {}
    /\ barrier_seen = [t \in Threads |-> [u \in Threads |-> -1]]

\* Items producer 0 has queued, and the writer has not yet taken, when the
\* run starts with a ring that is nearly full; and the slots the oldest
\* of them may be in.
RingPrefill == 8
RingStarts == {0, 5}

\* The i-th of these items: MIN_QUEUE_ITEM_BYTES bytes of a segment closed
\* before the run starts.
PrefilledItem(i) == RRun(<<0, 0, i - RingPrefill - 1>>, MIN_QUEUE_ITEM_BYTES)

RECURSIVE PrefilledBytes(_)
PrefilledBytes(n) ==
    IF n = 0 THEN <<>> ELSE RCat(PrefilledBytes(n - 1), PrefilledItem(n))

\* The multiplexer some time after construction: producer 0 has written
\* and registered breakpoints RingPrefill times, and the writer thread,
\* at the top of its loop, has taken nothing yet from where the ring
\* stands.
RingStarted ==
    /\ backing_stream = <<>>
    /\ thread_streams = [t \in Threads |-> EmptyStream]
    /\ thread_breakpoint_cursors = [t \in Threads |-> 0]
    /\ \E start \in RingStarts :
         /\ thread_queues =
              [t \in Threads |->
                 [s \in Slots |->
                    IF t = 0 /\ (s - start) % RING_BUFFER_SIZE < RingPrefill
                    THEN PrefilledItem(((s - start) % RING_BUFFER_SIZE) + 1)
                    ELSE <<>>]]
         /\ thread_queue_filled_slots = [t \in Threads |-> IF t = 0 THEN start ELSE 0]
         /\ thread_queue_empty_slots =
              [t \in Threads |->
                 IF t = 0 THEN (start + RingPrefill) % RING_BUFFER_SIZE ELSE 0]
    /\ thread_queue_byte_counts =
         [t \in Threads |-> IF t = 0 THEN RingPrefill * MIN_QUEUE_ITEM_BYTES ELSE 0]
    /\ thread_queue_mutexes = [t \in Threads |-> "free"]
    /\ writer_stop = FALSE
    /\ pc = [t \in Threads |-> "idle"]
    /\ w_pc = "loop"
    /\ w_i = 0
    /\ nwrites = [t \in Threads |-> 0]
    /\ nbarriers = 0
    /\ ndiscards = 0
    /\ seg = [t \in Threads |-> 0]
    /\ committed = [t \in Threads |->
                      IF t = 0 THEN PrefilledBytes(RingPrefill) ELSE <<>>]
    /\ pending = [t \in Threads |-> <<>>]
    /\ bp_content = [t \in Threads |-> <<>>]
    /\ discarded = {}
    /\ barrier_seen = [t \in Threads |-> [u \in Threads |-> -1]]

(***************************************************************************)
(* Producer threads.  A producer that is not inside a multiplexer call is   *)
(* "idle"; no producer may use the multiplexer once its destructor started. *)
(***************************************************************************)

RECURSIVE SumOver(_, _)
SumOver(f, S) ==
    IF S = {} THEN 0
    ELSE LET x == CHOOSE y \in S : TRUE IN f[x] + SumOver(f, S \ {x})

TotalWrites == SumOver(nwrites, Threads)

ProducerMayCall(t) == pc[t] = "idle" /\ ~writer_stop

\* get_thread_stream(t) << data: producer t writes n bytes to its stream.
Write(t, n) ==
    /\ ProducerMayCall(t)
    /\ TotalWrites < MaxWrites
    /\ LET id == <<t, nwrites[t] + 1, seg[t]>>
       IN  /\ thread_streams' =
                [thread_streams EXCEPT ![t] = StreamPut(@, RRun(id, n))]
           /\ pending' = [pending EXCEPT ![t] = RCat(@, RRun(id, n))]
    /\ nwrites' = [nwrites EXCEPT ![t] = @ + 1]
    /\ UNCHANGED <<backing_stream, thread_breakpoint_cursors, thread_queues,
                   thread_queue_empty_slots, thread_queue_filled_slots,
                   thread_queue_byte_counts, thread_queue_mutexes, writer_stop,
                   pc, w_pc, w_i, nbarriers, ndiscards, seg, committed,
                   bp_content, discarded, barrier_seen>>
    /\ UNCHANGED <<msgVars, vpkgVars, pipeVars, gzVars, regVars>>

\* A want_breakpoint that asks for more than MIN_QUEUE_ITEM_BYTES.
want_more_breakpoint(t) == tellp(t) > MIN_QUEUE_ITEM_BYTES

\* want_breakpoint
want_breakpoint(t) == tellp(t) >= MIN_QUEUE_ITEM_BYTES

\* History: a breakpoint or barrier call closes the segment being written.
CloseSegment(t) ==
    /\ committed' = [committed EXCEPT ![t] = RCat(@, pending[t])]
    /\ pending' = [pending EXCEPT ![t] = <<>>]
    /\ seg' = [seg EXCEPT ![t] = IF pending[t] = <<>> THEN @ ELSE @ + 1]

\* register_breakpoint, up to the first lock() (or all of it, when the
\* buffer is too small to be queued).
BreakpointBegin(t) ==
    /\ ProducerMayCall(t)
    /\ CloseSegment(t)
    /\ LET item_bytes == tellp(t)
       IN  IF item_bytes >= MIN_QUEUE_ITEM_BYTES
           THEN /\ pc' = [pc EXCEPT ![t] = "bp_lock"]
                /\ bp_content' = [bp_content EXCEPT ![t] = <<>>]
                /\ UNCHANGED thread_breakpoint_cursors
           ELSE /\ thread_breakpoint_cursors' =
                     [thread_breakpoint_cursors EXCEPT ![t] = item_bytes]
                /\ bp_content' = [bp_content EXCEPT ![t] = StreamContents(t)]
                /\ UNCHANGED pc
    /\ UNCHANGED <<backing_stream, thread_streams, thread_queues,
                   thread_queue_empty_slots, thread_queue_filled_slots,
                   thread_queue_byte_counts, thread_queue_mutexes, writer_stop,
                   w_pc, w_i, nwrites, nbarriers, ndiscards, discarded, barrier_seen>>
    /\ UNCHANGED <<msgVars, vpkgVars, pipeVars, gzVars, regVars>>

\* thread_queue_mutexes[t].lock() by producer t, at any of its lock() calls.
ProducerLock(t) ==
    /\ pc[t] \in {"bp_lock", "bar_lock", "bar_wait_lock"}
    /\ thread_queue_mutexes[t] = "free"
    /\ thread_queue_mutexes' = [thread_queue_mutexes EXCEPT ![t] = "producer"]
    /\ pc' = [pc EXCEPT ![t] = CASE pc[t] = "bp_lock" -> "bp_locked"
                                 [] pc[t] = "bar_lock" -> "bar_locked"
                                 [] OTHER -> "bar_wait_locked"]
    /\ UNCHANGED <<backing_stream, thread_streams, thread_breakpoint_cursors,
                   thread_queues, thread_queue_empty_slots,
                   thread_queue_filled_slots, thread_queue_byte_counts,
                   writer_stop, w_pc, w_i>>
    /\ UNCHANGED muxHist
    /\ UNCHANGED <<msgVars, vpkgVars, pipeVars, gzVars, regVars>>

\* The ring is full: unlock, yield, and go back to lock().
RetryFull(t, retry) ==
    /\ ring_buffer_full(t)
    /\ thread_queue_mutexes' = [thread_queue_mutexes EXCEPT ![t] = "free"]
    /\ pc' = [pc EXCEPT ![t] = retry]
    /\ UNCHANGED <<backing_stream, thread_streams, thread_breakpoint_cursors,
                   thread_queues, thread_queue_empty_slots,
                   thread_queue_filled_slots, thread_queue_byte_counts,
                   writer_stop, w_pc, w_i>>
    /\ UNCHANGED muxHist

\* PushBuffer with the queued item cut at MIN_QUEUE_ITEM_BYTES, the rest of
\* the buffer staying in the thread's stream.
PushBufferCut(t, next) ==
    /\ ~ring_buffer_full(t)
    /\ LET item_bytes == Min(tellp(t), MIN_QUEUE_ITEM_BYTES)
       IN  /\ thread_queue_byte_counts' =
                [thread_queue_byte_counts EXCEPT ![t] = @ + item_bytes]
           /\ thread_queues' =
                [thread_queues EXCEPT ![t][thread_queue_empty_slots[t]] =
                                         RTake(StreamContents(t), item_bytes)]
           /\ thread_streams' =
                [thread_streams EXCEPT ![t] =
                   [str   |-> RDrop(StreamContents(t), item_bytes),
                    tellp |-> tellp(t) - item_bytes]]
    /\ thread_queue_empty_slots' =
         [thread_queue_empty_slots EXCEPT ![t] = RingAdvance(@)]
    /\ thread_queue_mutexes' = [thread_queue_mutexes EXCEPT ![t] = "free"]
    /\ thread_breakpoint_cursors' = [thread_breakpoint_cursors EXCEPT ![t] = 0]
    /\ pc' = [pc EXCEPT ![t] = next]
    /\ UNCHANGED <<backing_stream, thread_queue_filled_slots, writer_stop,
                   w_pc, w_i>>

\* The ring has room: count the bytes, move the buffer into the slot
\* ring_buffer_push returns, unlock, reset the stream and the cursor.
PushBuffer(t, next) ==
    /\ ~ring_buffer_full(t)
    /\ LET item_bytes == tellp(t)
       IN  /\ thread_queue_byte_counts' =
                [thread_queue_byte_counts EXCEPT ![t] = @ + item_bytes]
           /\ thread_queues' =
                [thread_queues EXCEPT ![t][thread_queue_empty_slots[t]] =
                                         StreamContents(t)]
    /\ thread_queue_empty_slots' =
         [thread_queue_empty_slots EXCEPT ![t] = RingAdvance(@)]
    /\ thread_queue_mutexes' = [thread_queue_mutexes EXCEPT ![t] = "free"]
    /\ thread_streams' = [thread_streams EXCEPT ![t] = EmptyStream]
    /\ thread_breakpoint_cursors' = [thread_breakpoint_cursors EXCEPT ![t] = 0]
    /\ pc' = [pc EXCEPT ![t] = next]
    /\ UNCHANGED <<backing_stream, thread_queue_filled_slots, writer_stop,
                   w_pc, w_i>>

\* register_breakpoint holding the lock: the while loop test and what follows.
BreakpointLocked(t) ==
    /\ pc[t] = "bp_locked"
    /\ \/ RetryFull(t, "bp_lock")
       \/ /\ PushBuffer(t, "idle")
          /\ UNCHANGED <<nwrites, nbarriers, ndiscards, seg, committed, pending,
                         bp_content, discarded, barrier_seen>>
    /\ UNCHANGED <<msgVars, vpkgVars, pipeVars, gzVars, regVars>>

\* register_barrier, up to its first lock().
BarrierBegin(t) ==
    /\ ProducerMayCall(t)
    /\ nbarriers < MaxBarriers
    /\ nbarriers' = nbarriers + 1
    /\ CloseSegment(t)
    /\ pc' = [pc EXCEPT ![t] = "bar_lock"]
    /\ bp_content' = [bp_content EXCEPT ![t] = <<>>]
    /\ UNCHANGED <<backing_stream, thread_streams, thread_breakpoint_cursors,
                   thread_queues, thread_queue_empty_slots,
                   thread_queue_filled_slots, thread_queue_byte_counts,
                   thread_queue_mutexes, writer_stop, w_pc, w_i, nwrites,
                   ndiscards, discarded, barrier_seen>>
    /\ UNCHANGED <<msgVars, vpkgVars, pipeVars, gzVars, regVars>>

\* register_barrier holding the lock the first time: queue the buffer
\* whatever its size, then yield and lock again to wait.
BarrierLocked(t) ==
    /\ pc[t] = "bar_locked"
    /\ \/ RetryFull(t, "bar_lock")
       \/ /\ PushBuffer(t, "bar_wait_lock")
          /\ UNCHANGED muxHist
    /\ UNCHANGED <<msgVars, vpkgVars, pipeVars, gzVars, regVars>>

\* BarrierWaitLocked returning at once, the ring empty or not.
BarrierNoWait(t) ==
    /\ pc[t] = "bar_wait_locked"
    /\ thread_queue_mutexes' = [thread_queue_mutexes EXCEPT ![t] = "free"]
    /\ pc' = [pc EXCEPT ![t] = "idle"]
    /\ barrier_seen' = [barrier_seen EXCEPT ![t] = nwrites]
    /\ UNCHANGED <<backing_stream, thread_streams, thread_breakpoint_cursors,
                   thread_queues, thread_queue_empty_slots,
                   thread_queue_filled_slots, thread_queue_byte_counts,
                   writer_stop, w_pc, w_i, nwrites, nbarriers, ndiscards, seg,
                   committed, pending, bp_content, discarded>>
    /\ UNCHANGED <<msgVars, vpkgVars, pipeVars, gzVars, regVars>>

\* register_barrier holding the lock the second time: return once the ring
\* is empty, else unlock, yield, lock again.
BarrierWaitLocked(t) ==
    /\ pc[t] = "bar_wait_locked"
    /\ thread_queue_mutexes' = [thread_queue_mutexes EXCEPT ![t] = "free"]
    /\ IF ~ring_buffer_empty(t)
       THEN /\ pc' = [pc EXCEPT ![t] = "bar_wait_lock"]
            /\ UNCHANGED barrier_seen
       ELSE /\ pc' = [pc EXCEPT ![t] = "idle"]
            /\ barrier_seen' = [barrier_seen EXCEPT ![t] = nwrites]
    /\ UNCHANGED <<backing_stream, thread_streams, thread_breakpoint_cursors,
                   thread_queues, thread_queue_empty_slots,
                   thread_queue_filled_slots, thread_queue_byte_counts,
                   writer_stop, w_pc, w_i, nwrites, nbarriers, ndiscards, seg, committed,
                   pending, bp_content, discarded>>
    /\ UNCHANGED <<msgVars, vpkgVars, pipeVars, gzVars, regVars>>

\* DiscardToBreakpoint leaving the put pointer where it is.
DiscardNothing(t) ==
    /\ ProducerMayCall(t)
    /\ discarded' = discarded \cup RElems(pending[t])
    /\ pending' = [pending EXCEPT ![t] = <<>>]
    /\ UNCHANGED <<backing_stream, thread_streams, thread_breakpoint_cursors,
                   thread_queues, thread_queue_empty_slots,
                   thread_queue_filled_slots, thread_queue_byte_counts,
                   thread_queue_mutexes, writer_stop, pc, w_pc, w_i, nwrites,
                   nbarriers, ndiscards, seg, committed, bp_content,
                   barrier_seen>>
    /\ UNCHANGED <<msgVars, vpkgVars, pipeVars, gzVars, regVars>>

\* discard_to_breakpoint
DiscardToBreakpoint(t) ==
    /\ ProducerMayCall(t)
    /\ LET item_bytes == tellp(t)
       IN  thread_streams' =
             [thread_streams EXCEPT ![t] =
                IF item_bytes > thread_breakpoint_cursors[t]
                THEN StreamSeekp(@, thread_breakpoint_cursors[t])
                ELSE @]
    /\ discarded' = discarded \cup RElems(pending[t])
    /\ pending' = [pending EXCEPT ![t] = <<>>]
    /\ UNCHANGED <<backing_stream, thread_breakpoint_cursors, thread_queues,
                   thread_queue_empty_slots, thread_queue_filled_slots,
                   thread_queue_byte_counts, thread_queue_mutexes, writer_stop,
                   pc, w_pc, w_i, nwrites, nbarriers, ndiscards, seg, committed, bp_content,
                   barrier_seen>>
    /\ UNCHANGED <<msgVars, vpkgVars, pipeVars, gzVars, regVars>>

\* discard_bytes without the clamp to the last breakpoint.
DiscardBytesUnclamped(t, n) ==
    /\ ProducerMayCall(t)
    /\ ndiscards < MaxDiscards
    /\ ndiscards' = ndiscards + 1
    /\ LET item_bytes     == tellp(t)
           count          == IF n > item_bytes THEN item_bytes ELSE n
           new_item_bytes == item_bytes - count
       IN  thread_streams' =
             [thread_streams EXCEPT ![t] = StreamSeekp(@, new_item_bytes)]
    /\ pending' = [pending EXCEPT ![t] =
                     RTake(@, RLen(@) - Min(n, RLen(@)))]
    /\ UNCHANGED <<backing_stream, thread_breakpoint_cursors, thread_queues,
                   thread_queue_empty_slots, thread_queue_filled_slots,
                   thread_queue_byte_counts, thread_queue_mutexes, writer_stop,
                   pc, w_pc, w_i, nwrites, nbarriers, seg, committed, bp_content,
                   discarded, barrier_seen>>
    /\ UNCHANGED <<msgVars, vpkgVars, pipeVars, gzVars, regVars>>

\* discard_bytes
DiscardBytes(t, n) ==
    /\ ProducerMayCall(t)
    /\ ndiscards < MaxDiscards
    /\ ndiscards' = ndiscards + 1
    /\ LET item_bytes     == tellp(t)
           count          == IF n > item_bytes THEN item_bytes ELSE n
           new_item_bytes == Max(thread_breakpoint_cursors[t], item_bytes - count)
       IN  thread_streams' =
             [thread_streams EXCEPT ![t] = StreamSeekp(@, new_item_bytes)]
    /\ pending' = [pending EXCEPT ![t] =
                     RTake(@, RLen(@) - Min(n, RLen(@)))]
    /\ UNCHANGED <<backing_stream, thread_breakpoint_cursors, thread_queues,
                   thread_queue_empty_slots, thread_queue_filled_slots,
                   thread_queue_byte_counts, thread_queue_mutexes, writer_stop,
                   pc, w_pc, w_i, nwrites, nbarriers, seg, committed, bp_content,
                   discarded, barrier_seen>>
    /\ UNCHANGED <<msgVars, vpkgVars, pipeVars, gzVars, regVars>>

(***************************************************************************)
(* The writer thread (writer_thread_function) and the destructor.          *)
(***************************************************************************)

\* The writer moves on to queue i + 1, or back to the while test.
WriterNext(i) ==
    IF i + 1 < max_threads
    THEN /\ w_i' = i + 1
         /\ w_pc' = "lock"
    ELSE /\ w_i' = 0
         /\ w_pc' = "loop"

\* while (!writer_stop.load()): start a pass over the queues, or leave the
\* loop.  (found_data only decides whether the writer yields after a pass.)
WriterLoop ==
    /\ w_pc = "loop"
    /\ w_i' = 0
    /\ w_pc' = IF writer_stop THEN "drain_rings" ELSE "lock"
    /\ UNCHANGED <<backing_stream, thread_streams, thread_breakpoint_cursors,
                   thread_queues, thread_queue_empty_slots,
                   thread_queue_filled_slots, thread_queue_byte_counts,
                   thread_queue_mutexes, writer_stop, pc>>
    /\ UNCHANGED muxHist
    /\ UNCHANGED <<msgVars, vpkgVars, pipeVars, gzVars, regVars>>

\* thread_queue_mutexes[i].lock() by the writer, before the peek or the pop.
WriterLock ==
    /\ w_pc \in {"lock", "relock"}
    /\ thread_queue_mutexes[w_i] = "free"
    /\ thread_queue_mutexes' = [thread_queue_mutexes EXCEPT ![w_i] = "writer"]
    /\ w_pc' = IF w_pc = "lock" THEN "locked" ELSE "relocked"
    /\ UNCHANGED <<backing_stream, thread_streams, thread_breakpoint_cursors,
                   thread_queues, thread_queue_empty_slots,
                   thread_queue_filled_slots, thread_queue_byte_counts,
                   writer_stop, pc, w_i>>
    /\ UNCHANGED muxHist
    /\ UNCHANGED <<msgVars, vpkgVars, pipeVars, gzVars, regVars>>

\* Holding the lock: peek at the next item and count its bytes out, or find
\* the queue empty; unlock either way.
WriterPeek ==
    /\ w_pc = "locked"
    /\ thread_queue_mutexes' = [thread_queue_mutexes EXCEPT ![w_i] = "free"]
    /\ IF ~ring_buffer_empty(w_i)
       THEN /\ thread_queue_byte_counts' =
                 [thread_queue_byte_counts EXCEPT
                    ![w_i] = @ - RLen(ring_buffer_peek(w_i))]
            /\ w_pc' = "write"
            /\ UNCHANGED w_i
       ELSE /\ WriterNext(w_i)
            /\ UNCHANGED thread_queue_byte_counts
    /\ UNCHANGED <<backing_stream, thread_streams, thread_breakpoint_cursors,
                   thread_queues, thread_queue_empty_slots,
                   thread_queue_filled_slots, writer_stop, pc>>
    /\ UNCHANGED muxHist
    /\ UNCHANGED <<msgVars, vpkgVars, pipeVars, gzVars, regVars>>

\* backing_stream << emptying, outside the lock.
WriterWrite ==
    /\ w_pc = "write"
    /\ backing_stream' = RCat(backing_stream, ring_buffer_peek(w_i))
    /\ w_pc' = "relock"
    /\ UNCHANGED <<thread_streams, thread_breakpoint_cursors, thread_queues,
                   thread_queue_empty_slots, thread_queue_filled_slots,
                   thread_queue_byte_counts, thread_queue_mutexes, writer_stop,
                   pc, w_i>>
    /\ UNCHANGED muxHist
    /\ UNCHANGED <<msgVars, vpkgVars, pipeVars, gzVars, regVars>>

\* Holding the lock again: ring_buffer_pop, unlock, next queue.
WriterPop ==
    /\ w_pc = "relocked"
    /\ thread_queue_filled_slots' =
         [thread_queue_filled_slots EXCEPT ![w_i] = RingAdvance(@)]
    /\ thread_queue_mutexes' = [thread_queue_mutexes EXCEPT ![w_i] = "free"]
    /\ WriterNext(w_i)
    /\ UNCHANGED <<backing_stream, thread_streams, thread_breakpoint_cursors,
                   thread_queues, thread_queue_empty_slots,
                   thread_queue_byte_counts, writer_stop, pc>>
    /\ UNCHANGED muxHist
    /\ UNCHANGED <<msgVars, vpkgVars, pipeVars, gzVars, regVars>>

\* WriterDrainRings leaving the loop over the rings without emptying them.
WriterSkipRings ==
    /\ w_pc = "drain_rings"
    /\ w_i' = 0
    /\ w_pc' = "drain_streams"
    /\ UNCHANGED <<backing_stream, thread_streams, thread_breakpoint_cursors,
                   thread_queues, thread_queue_empty_slots,
                   thread_queue_filled_slots, thread_queue_byte_counts,
                   thread_queue_mutexes, writer_stop, pc>>
    /\ UNCHANGED muxHist
    /\ UNCHANGED <<msgVars, vpkgVars, pipeVars, gzVars, regVars>>

\* After the stop: the first for loop, one queued item (or one exhausted
\* queue) at a time, without locks.
WriterDrainRings ==
    /\ w_pc = "drain_rings"
    /\ IF ~ring_buffer_empty(w_i)
       THEN /\ backing_stream' = RCat(backing_stream, ring_buffer_peek(w_i))
            /\ thread_queue_filled_slots' =
                 [thread_queue_filled_slots EXCEPT ![w_i] = RingAdvance(@)]
            /\ UNCHANGED <<w_pc, w_i>>
       ELSE /\ IF w_i + 1 < max_threads
               THEN w_i' = w_i + 1 /\ UNCHANGED w_pc
               ELSE w_i' = 0 /\ w_pc' = "drain_streams"
            /\ UNCHANGED <<backing_stream, thread_queue_filled_slots>>
    /\ UNCHANGED <<thread_streams, thread_breakpoint_cursors, thread_queues,
                   thread_queue_empty_slots, thread_queue_byte_counts,
                   thread_queue_mutexes, writer_stop, pc>>
    /\ UNCHANGED muxHist
    /\ UNCHANGED <<msgVars, vpkgVars, pipeVars, gzVars, regVars>>

\* After the stop: the second for loop, one thread stream at a time.
WriterDrainStreams ==
    /\ w_pc = "drain_streams"
    /\ LET data_bytes == tellp(w_i)
       IN  backing_stream' =
             IF data_bytes > 0
             THEN RCat(backing_stream, RTake(thread_streams[w_i].str, data_bytes))
             ELSE backing_stream
    /\ IF w_i + 1 < max_threads
       THEN w_i' = w_i + 1 /\ UNCHANGED w_pc
       ELSE w_i' = 0 /\ w_pc' = "done"
    /\ UNCHANGED <<thread_streams, thread_breakpoint_cursors, thread_queues,
                   thread_queue_empty_slots, thread_queue_filled_slots,
                   thread_queue_byte_counts, thread_queue_mutexes, writer_stop,
                   pc>>
    /\ UNCHANGED muxHist
    /\ UNCHANGED <<msgVars, vpkgVars, pipeVars, gzVars, regVars>>

\* ~StreamMultiplexer: tell the writer to finish (then join it).  The
\* producers have stopped using the multiplexer.
Destroy ==
    /\ ~writer_stop
    /\ \A t \in Threads : pc[t] = "idle"
    /\ writer_stop' = TRUE
    /\ UNCHANGED <<backing_stream, thread_streams, thread_breakpoint_cursors,
                   thread_queues, thread_queue_empty_slots,
                   thread_queue_filled_slots, thread_queue_byte_counts,
                   thread_queue_mutexes, pc, w_pc, w_i>>
    /\ UNCHANGED muxHist
    /\ UNCHANGED <<msgVars, vpkgVars, pipeVars, gzVars, regVars>>

\* The destructor has returned.
Destroyed == writer_stop /\ w_pc = "done"

ProducerStep(t) ==
    \/ \E n \in WriteSizes : Write(t, n)
    \/ BreakpointBegin(t)
    \/ BreakpointLocked(t)
    \/ BarrierBegin(t)
    \/ BarrierLocked(t)
    \/ BarrierWaitLocked(t)
    \/ ProducerLock(t)
    \/ DiscardToBreakpoint(t)
    \/ \E n \in WriteSizes : DiscardBytes(t, n)

WriterStep ==
    \/ WriterLoop
    \/ WriterLock
    \/ WriterPeek
    \/ WriterWrite
    \/ WriterPop
    \/ WriterDrainRings
    \/ WriterDrainStreams

MuxNext ==
    \/ \E t \in Threads : ProducerStep(t)
    \/ WriterStep
    \/ Destroy

\* The run that starts with the ring of producer 0 nearly full: the
\* producers write buffers large enough to be queued and register
\* breakpoints and a barrier.
RingNext ==
    \/ \E t \in Threads : Write(t, MIN_QUEUE_ITEM_BYTES)
    \/ \E t \in Threads : BreakpointBegin(t)
    \/ \E t \in Threads : BreakpointLocked(t)
    \/ \E t \in Threads : BarrierBegin(t)
    \/ \E t \in Threads : BarrierLocked(t)
    \/ \E t \in Threads : BarrierWaitLocked(t)
    \/ \E t \in Threads : ProducerLock(t)
    \/ WriterStep
    \/ Destroy

(***************************************************************************)
(* MessageEmitter, the byte stream it writes, and MessageIterator          *)
(***************************************************************************)

\* Number of write / flush calls made on the emitter.
MaxEmits == 3
\* The max_group_size the emitter is constructed with.
max_group_size == 2
\* Number of listeners registered with on_group.
NumListeners == 2
\* Number of seek_group calls made on the iterator.
MaxSeeks == 1
\* Number of times the iterator is advanced after its construction or a seek.
MaxReads == 4
\* Number of messages longer than MAX_MESSAGE_SIZE passed to the emitter.
MaxOversized == 1

MAX_MESSAGE_SIZE == 1000000000
MAX_TAG_LENGTH == 25
\* htslib: bytes of uncompressed data in a block the BGZF writer closes.
BGZF_BLOCK_SIZE == 65280
\* htslib: bytes the BGZF reader takes at once from an uncompressed file;
\* also 2^16, the weight of the block address in a virtual offset.
BGZF_MAX_BLOCK_SIZE == 65536

\* Tags, as byte strings: two registered ones, one nobody registered, the
\* empty one and one of MAX_TAG_LENGTH + 1 bytes.
TagA == RRun(65, 1)
TagB == RRun(66, 2)
TagU == RRun(85, 1)
TagEmpty == <<>>
TagLong == RRun(76, MAX_TAG_LENGTH + 1)
Tags == {TagA, TagB, TagU, TagEmpty, TagLong}

\* Registry::is_valid_tag: the tag was literally registered.
RegisteredTags == {TagA, TagB}
is_valid_tag(tag) == tag \in RegisteredTags

\* Messages: empty, one byte, one longer than a BGZF block, and one of
\* MAX_MESSAGE_SIZE + 1 bytes.
MsgEmpty == <<>>
MsgSmall == RRun(109, 1)
MsgBig == RRun(98, 70000)
MsgOversized == RRun(111, MAX_MESSAGE_SIZE + 1)
Messages == {MsgEmpty, MsgSmall, MsgBig, MsgOversized}
\* The oversized message is only tried on an uncompressed output (it would
\* fill some fifteen thousand BGZF blocks).
MessagesFor(compress) ==
    IF compress THEN Messages \ {MsgOversized} ELSE Messages

(***************************************************************************)
(* A virtual offset (block address << 16 | offset in the block) is kept as *)
(* the pair <<block address, offset>>, so that addresses in a gigabyte     *)
(* file need no 64 bit arithmetic.                                         *)
(***************************************************************************)

\* The virtual offset with the given block address and offset in the block.
VirtualOffset(address, offset) == <<address, offset % BGZF_MAX_BLOCK_SIZE>>

\* A plain number used as a virtual offset: its bits above and below bit 16.
AsVirtualOffset(n) == <<n \div BGZF_MAX_BLOCK_SIZE, n % BGZF_MAX_BLOCK_SIZE>>

\* The "-1" of tell functions and of group_vo / item_vo.
NoOffset == <<-1, 0>>

\* A varint with the high bit set on the last byte instead of the others.
RECURSIVE VarintFlagLast(_)
VarintFlagLast(n) ==
    IF n < 128 THEN RRun(n + 128, 1)
    ELSE RCat(RRun(n % 128, 1), VarintFlagLast(n \div 128))

\* CodedOutputStream::WriteVarint32 / WriteVarint64: 7 bits a byte, least
\* significant first, high bit set on all but the last byte.
RECURSIVE Varint(_)
Varint(n) ==
    IF n < 128 THEN RRun(n, 1)
    ELSE RCat(RRun((n % 128) + 128, 1), Varint(n \div 128))

\* The bytes emit_group writes for the messages of a group.
RECURSIVE EncodeMessages(_)
EncodeMessages(group) ==
    IF group = <<>> THEN <<>>
    ELSE RCat(RCat(Varint(RLen(Head(group))), Head(group)),
              EncodeMessages(Tail(group)))

\* A group written with the count of its messages alone, the tag not
\* counted.
EncodeGroupTagUncounted(tag, group) ==
    RCat(RCat(Varint(Len(group)), RCat(Varint(RLen(tag)), tag)),
         EncodeMessages(group))

\* A group written with a tag of no bytes in place of its tag.
EncodeGroupNoTag(tag, group) ==
    RCat(RCat(Varint(Len(group) + 1), Varint(0)), EncodeMessages(group))

\* A group written only if it has a message.
EncodeGroupSkipsLoneTag(tag, group) ==
    IF group = <<>> THEN <<>>
    ELSE RCat(RCat(Varint(Len(group) + 1), RCat(Varint(RLen(tag)), tag)),
              EncodeMessages(group))

\* The bytes emit_group writes: count, tag length, tag, then the messages.
EncodeGroup(tag, group) ==
    RCat(RCat(Varint(Len(group) + 1), RCat(Varint(RLen(tag)), tag)),
         EncodeMessages(group))

\* Size of the BGZF block that holds the given uncompressed data.  What
\* deflate makes of the data is not modelled; the size is some function of
\* the data that is not its length.
CompressedSize(data) == 26 + 2 * Len(data)

\* File offset behind the given BGZF blocks.
RECURSIVE BlocksSize(_)
BlocksSize(blocks) ==
    IF blocks = <<>> THEN 0
    ELSE CompressedSize(Head(blocks)) + BlocksSize(Tail(blocks))

\* bgzf_write: fill the current block, closing it whenever it holds
\* BGZF_BLOCK_SIZE bytes.
RECURSIVE BgzfWrite(_, _)
BgzfWrite(s, data) ==
    LET room == BGZF_BLOCK_SIZE - RLen(s.block)
    IN  IF RLen(data) < room
        THEN [s EXCEPT !.block = RCat(@, data)]
        ELSE BgzfWrite([s EXCEPT !.blocks = Append(@, RCat(s.block, RTake(data, room))),
                                 !.block = <<>>],
                       RDrop(data, room))

\* bgzf_flush: close the current block unless it is empty.
BgzfFlush(s) ==
    IF s.block = <<>> THEN s
    ELSE [s EXCEPT !.blocks = Append(@, s.block), !.block = <<>>]

\* BlockedGzipOutputStream::Tell: address of the current block and the
\* offset in it.
BgzfOutTell(s) == VirtualOffset(BlocksSize(s.blocks), RLen(s.block))

\* The output before anything is written.
EmptySink == [raw |-> <<>>, blocks |-> <<>>, block |-> <<>>, eof |-> FALSE]

\* Where the emitter's output stands: bgzip_out->Tell(), or
\* uncompressed_out_written + uncompressed_out->ByteCount().
EmitterTell(e, s) ==
    IF e.compress THEN BgzfOutTell(s)
    ELSE AsVirtualOffset(e.uncompressed_out_written + e.byte_count)

\* One call to each listener, in registration order.
HandlerCalls(tag, start, end) ==
    [i \in 1..NumListeners |->
        [listener |-> i, tag |-> tag, start |-> start, end |-> end]]

\* The emitter with its output, listener record and history, as one value.
EmitterWorld == [e |-> emitter, s |-> sink, calls |-> handler_calls, h |-> msgHist]

\* MessageEmitter::emit_group
emit_group(w) ==
    IF w.e.group_tag = <<>> THEN w
    ELSE
      LET virtual_offset == EmitterTell(w.e, w.s)
          bytes == EncodeGroup(w.e.group_tag, w.e.group)
          s1 == IF w.e.compress THEN BgzfWrite(w.s, bytes)
                ELSE [w.s EXCEPT !.raw = RCat(@, bytes)]
          e1 == IF w.e.compress THEN w.e
                ELSE [w.e EXCEPT !.byte_count = @ + RLen(bytes)]
          next_virtual_offset == EmitterTell(e1, s1)
      IN  [e |-> [e1 EXCEPT !.group = <<>>, !.group_tag = <<>>],
           s |-> s1,
           calls |-> w.calls \o HandlerCalls(w.e.group_tag, virtual_offset,
                                             next_virtual_offset),
           h |-> [w.h EXCEPT
                    !.emitted = Append(@, [tag |-> w.e.group_tag,
                                           msgs |-> w.e.group,
                                           passed |-> w.h.passed,
                                           start |-> virtual_offset,
                                           end |-> next_virtual_offset]),
                    !.passed = <<>>]]

\* A write(tag) that emits the group at hand but does not adopt the tag.
write_tag_unadopted(w, tag) ==
    IF Len(w.e.group) >= w.e.max_group_size \/ tag # w.e.group_tag
    THEN emit_group(w) ELSE w

\* MessageEmitter::write(tag): make the current group one for the tag.
write_tag(w, tag) ==
    LET w1 == IF Len(w.e.group) >= w.e.max_group_size \/ tag # w.e.group_tag
              THEN emit_group(w) ELSE w
    IN  IF tag # w1.e.group_tag
        THEN [w1 EXCEPT !.e.group_tag = tag]
        ELSE w1

\* MessageEmitter::write(tag, message) and write_copy: the message goes
\* into the group, then its size is checked.
write_message(w, tag, message) ==
    LET w1 == write_tag(w, tag)
    IN  [w1 EXCEPT !.e.group = Append(@, message),
                   !.h.passed = Append(@, tag),
                   !.h.result = IF RLen(message) > MAX_MESSAGE_SIZE
                                THEN "error" ELSE "ok"]

\* Put an EmitterWorld value back into the variables.
SetEmitterWorld(w) ==
    /\ emitter' = w.e
    /\ sink' = w.s
    /\ handler_calls' = w.calls
    /\ msgHist' = w.h

EmitterOpen == emitter.state = "open"

MsgInit ==
    /\ emitter = [state |-> "none", compress |-> FALSE, group |-> <<>>,
                  group_tag |-> <<>>, max_group_size |-> max_group_size,
                  uncompressed_out_written |-> 0, byte_count |-> 0]
    /\ sink = EmptySink
    /\ handler_calls = <<>>
    /\ iter = [state |-> "none"]
    /\ msgHist = [ncalls |-> 0, noversized |-> 0, result |-> "ok", call |-> <<>>,
                  passed |-> <<>>, emitted |-> <<>>,
                  grp |-> 0, decoded |-> <<>>, nreads |-> 0, nseeks |-> 0,
                  sought |-> 0, cached |-> <<>>]

\* MessageEmitter::MessageEmitter(out, compress, max_group_size)
EmitterConstruct(compress) ==
    /\ emitter.state = "none"
    /\ emitter' = [emitter EXCEPT !.state = "open", !.compress = compress]
    /\ UNCHANGED <<sink, handler_calls, iter, msgHist>>
    /\ UNCHANGED <<muxVars, muxHist, vpkgVars, pipeVars, gzVars, regVars>>

\* A call of write(tag).
WriteTag(tag) ==
    /\ EmitterOpen
    /\ msgHist.ncalls < MaxEmits
    /\ SetEmitterWorld(
         [write_tag(EmitterWorld, tag) EXCEPT
            !.h.ncalls = @ + 1, !.h.result = "ok",
            !.h.call = <<"write", tag>>])
    /\ UNCHANGED iter
    /\ UNCHANGED <<muxVars, muxHist, vpkgVars, pipeVars, gzVars, regVars>>

\* A call of write(tag, message) or write_copy(tag, message).
WriteMessage(tag, message) ==
    /\ EmitterOpen
    /\ msgHist.ncalls < MaxEmits
    /\ RLen(message) > MAX_MESSAGE_SIZE => msgHist.noversized < MaxOversized
    /\ SetEmitterWorld(
         [write_message(EmitterWorld, tag, message) EXCEPT
            !.h.ncalls = @ + 1,
            !.h.noversized =
                IF RLen(message) > MAX_MESSAGE_SIZE THEN @ + 1 ELSE @,
            !.h.call = <<"write", tag, message>>])
    /\ UNCHANGED iter
    /\ UNCHANGED <<muxVars, muxHist, vpkgVars, pipeVars, gzVars, regVars>>

\* MessageEmitter::flush
Flush ==
    /\ EmitterOpen
    /\ msgHist.ncalls < MaxEmits
    /\ LET w == emit_group(EmitterWorld)
       IN  SetEmitterWorld(
             [w EXCEPT
                !.s = IF w.e.compress THEN BgzfFlush(@) ELSE @,
                !.e.uncompressed_out_written =
                    IF w.e.compress THEN @ ELSE @ + w.e.byte_count,
                !.e.byte_count = 0,
                !.h.ncalls = @ + 1, !.h.result = "ok",
                !.h.call = <<"flush">>])
    /\ UNCHANGED iter
    /\ UNCHANGED <<muxVars, muxHist, vpkgVars, pipeVars, gzVars, regVars>>

\* MessageEmitter::~MessageEmitter: emit the last group, then finish the
\* BGZF file with its empty end-of-file block.
EmitterDestroy ==
    /\ EmitterOpen
    /\ LET w == emit_group(EmitterWorld)
       IN  SetEmitterWorld(
             [w EXCEPT
                !.s = IF w.e.compress
                      THEN [BgzfFlush(@) EXCEPT !.eof = TRUE] ELSE @,
                !.e.state = "destroyed",
                !.h.call = <<"destroy">>])
    /\ UNCHANGED iter
    /\ UNCHANGED <<muxVars, muxHist, vpkgVars, pipeVars, gzVars, regVars>>

EmitterNext ==
    \/ \E compress \in BOOLEAN : EmitterConstruct(compress)
    \/ \E tag \in Tags : WriteTag(tag)
    \/ \E tag \in Tags : \E message \in MessagesFor(emitter.compress) :
          WriteMessage(tag, message)
    \/ Flush
    \/ EmitterDestroy

(***************************************************************************)
(* Reading                                                                 *)
(***************************************************************************)

\* The file a reader is given: the BGZF blocks (the empty end-of-file block
\* last, if written), or the plain bytes.
FileBlocks == IF sink.eof THEN Append(sink.blocks, <<>>) ELSE sink.blocks
FileSize(compressed) ==
    IF compressed THEN BlocksSize(FileBlocks) ELSE RLen(sink.raw)

\* The index of the BGZF block that starts at file offset pos, or 0.
BlockAt(pos) ==
    LET starts == {i \in 1..Len(FileBlocks) :
                     BlocksSize(SubSeq(FileBlocks, 1, i - 1)) = pos}
    IN  IF starts = {} THEN 0 ELSE CHOOSE i \in starts : TRUE

\* bgzf_read_block with a block in hand: data, which takes size bytes of
\* the file.
BlockLoaded(h, data, size) ==
    [ok |-> TRUE,
     h  |-> [h EXCEPT !.block_offset = IF h.block_length # 0 THEN 0 ELSE @,
                      !.block_address = h.fpos,
                      !.block_length = RLen(data),
                      !.block = data,
                      !.fpos = @ + size]]

\* bgzf_read_block at the end of the file.
BlockAtEnd(h) == [ok |-> TRUE, h |-> [h EXCEPT !.block_length = 0]]

\* The file offset behind the empty BGZF blocks at file offset pos.
RECURSIVE SkipEmptyBlocks(_)
SkipEmptyBlocks(pos) ==
    IF BlockAt(pos) # 0 /\ pos < BlocksSize(FileBlocks)
       /\ FileBlocks[BlockAt(pos)] = <<>>
    THEN SkipEmptyBlocks(pos + CompressedSize(<<>>))
    ELSE pos

\* The one element of a set of one element.  Used as
\*     Only({ e(x) : x \in {v} })
\* it gives e(x) with x bound to the value of v, computed once.
Only(S) == CHOOSE x \in S : TRUE

\* htslib bgzf_read_block.  An uncompressed file is taken BGZF_MAX_BLOCK_SIZE
\* bytes at a time; of a BGZF file the next block is inflated, empty blocks
\* skipped.  block_offset is kept if the read follows a seek (block_length
\* 0), else reset.  At the end of the file only block_length is set, to 0.
bgzf_read_block(h) ==
    IF ~h.compressed
    THEN Only({ IF data = <<>> THEN BlockAtEnd(h)
                ELSE BlockLoaded(h, data, RLen(data)) :
                data \in {RTake(RDrop(sink.raw, h.fpos), BGZF_MAX_BLOCK_SIZE)} })
    ELSE IF h.fpos < FileSize(TRUE) /\ BlockAt(h.fpos) = 0
         THEN [ok |-> FALSE, h |-> h]
    ELSE Only({ IF pos >= FileSize(TRUE)
                THEN BlockAtEnd([h EXCEPT !.fpos = pos])
                ELSE BlockLoaded([h EXCEPT !.fpos = pos],
                                 FileBlocks[BlockAt(pos)],
                                 CompressedSize(FileBlocks[BlockAt(pos)])) :
                pos \in {SkipEmptyBlocks(h.fpos)} })

\* BlockedGzipInputStream::Next
Next(h) ==
    IF h.block_length # 0 /\ h.block_offset # h.block_length
    THEN [ok |-> TRUE, data |-> RDrop(h.block, h.block_offset),
          h |-> [h EXCEPT !.block_offset = h.block_length]]
    ELSE Only({ IF ~r.ok \/ r.h.block_length = 0
                   \/ r.h.block_offset > r.h.block_length
                THEN [ok |-> FALSE, data |-> <<>>, h |-> r.h]
                ELSE [ok |-> TRUE, data |-> RDrop(r.h.block, r.h.block_offset),
                      h |-> [r.h EXCEPT !.block_offset = r.h.block_length]] :
                r \in {bgzf_read_block(h)} })

\* BackUp that steps back one byte short.
BackUpShort(h, count) == [h EXCEPT !.block_offset = @ - (count - 1)]

\* BlockedGzipInputStream::BackUp
BackUp(h, count) == [h EXCEPT !.block_offset = @ - count]

\* BlockedGzipInputStream::Tell (on a seekable stream)
Tell(h) ==
    IF h.block_offset = h.block_length
    THEN VirtualOffset(h.fpos, 0)
    ELSE VirtualOffset(h.block_address, h.block_offset)

\* BlockedGzipInputStream::Seek, htslib bgzf_seek
Seek(h, virtual_offset) ==
    [h EXCEPT !.block_length = 0,
              !.block_address = virtual_offset[1],
              !.block_offset = virtual_offset[2],
              !.fpos = virtual_offset[1]]

\* A CodedInputStream taking n bytes: buffers from Next until it has them.
\* h is the stream once the unread rest of the last buffer is backed up,
\* held is the stream while the CodedInputStream still holds that buffer.
RECURSIVE ReadRaw(_, _)
ReadRaw(h, n) ==
    IF n = 0 THEN [ok |-> TRUE, data |-> <<>>, h |-> h, held |-> h]
    ELSE Only({
        IF ~b.ok THEN [ok |-> FALSE, data |-> <<>>, h |-> b.h, held |-> b.h]
        ELSE IF RLen(b.data) >= n
        THEN [ok |-> TRUE, data |-> RTake(b.data, n),
              h |-> BackUp(b.h, RLen(b.data) - n), held |-> b.h]
        ELSE [ReadRaw(b.h, n - RLen(b.data)) EXCEPT !.data = RCat(b.data, @)] :
        b \in {Next(h)} })

\* CodedInputStream::ReadVarint32 / ReadVarint64, of at most left bytes.
RECURSIVE ReadVarint(_, _)
ReadVarint(h, left) ==
    Only({
        IF left = 0 \/ ~b.ok
        THEN [ok |-> FALSE, value |-> 0, h |-> b.h, held |-> b.held]
        ELSE IF b.data[1][1] < 128
        THEN [ok |-> TRUE, value |-> b.data[1][1], h |-> b.h, held |-> b.held]
        ELSE [ReadVarint(b.h, left - 1) EXCEPT
                !.value = (b.data[1][1] - 128) + 128 * @] :
        b \in {ReadRaw(h, 1)} })

\* The value of an iterator that has no message.
NoValue == [first |-> <<>>, second |-> <<>>, has_second |-> FALSE]

\* A tag decision that knows the cached tag only, not the registry.
is_tag_if_cached(previous_tag, first) ==
    previous_tag # <<>> /\ previous_tag = first

\* The first string of a group is its tag (message_iterator.cpp, is_tag).
is_tag(previous_tag, first) ==
    (previous_tag # <<>> /\ previous_tag = first) \/ is_valid_tag(first)

\* handle(false, ...): the iterator throws.
Threw(it) == [it EXCEPT !.state = "threw"]

\* operator++, from "Now we know we have a message to go with our tag".
ReadMessage(it) ==
    Only({
        IF ~size.ok \/ size.value > MAX_MESSAGE_SIZE
        THEN Threw([it EXCEPT !.item_vo = Tell(it.handle)])
        ELSE Only({
            IF ~body.ok
            THEN Threw([it EXCEPT !.item_vo = Tell(it.handle)])
            ELSE [it EXCEPT !.item_vo = Tell(it.handle),
                            !.value = [first |-> it.previous_tag,
                                       second |-> body.data,
                                       has_second |-> TRUE],
                            !.group_idx = @ + 1,
                            !.handle = body.h] :
            body \in {ReadRaw(size.h, size.value)} }) :
        size \in {ReadVarint(it.handle, 5)} })

\* A StartGroup that caches the first string of a group whether it is a
\* tag or not.
StartGroupCachingAll(started, count, tag) ==
    LET got == [started EXCEPT !.group_count = count.value,
                               !.item_vo = Tell(count.held),
                               !.group_idx = 1,
                               !.handle = tag.h]
    IN  IF ~is_tag(started.previous_tag, tag.data)
        THEN [got EXCEPT !.value = [first |-> <<>>, second |-> tag.data,
                                    has_second |-> TRUE],
                         !.previous_tag = tag.data]
        ELSE IF count.value = 1
        THEN [got EXCEPT !.value = [first |-> tag.data, second |-> <<>>,
                                    has_second |-> FALSE],
                         !.previous_tag = tag.data]
        ELSE ReadMessage([got EXCEPT !.value.first = tag.data,
                                     !.previous_tag = tag.data])

\* operator++ at the start of a group, with the count and the first string
\* read: decide whether the string is the tag.
StartGroup(started, count, tag) ==
    LET got == [started EXCEPT !.group_count = count.value,
                               !.item_vo = Tell(count.held),
                               !.group_idx = 1,
                               !.handle = tag.h]
    IN  IF ~is_tag(started.previous_tag, tag.data)
        THEN [got EXCEPT !.value = [first |-> <<>>, second |-> tag.data,
                                    has_second |-> TRUE],
                         !.previous_tag = <<>>]
        ELSE IF count.value = 1
        THEN [got EXCEPT !.value = [first |-> tag.data, second |-> <<>>,
                                    has_second |-> FALSE],
                         !.previous_tag = tag.data]
        ELSE ReadMessage([got EXCEPT !.value.first = tag.data,
                                     !.previous_tag = tag.data])

\* MessageIterator::operator++.  (The body of its while loop leaves
\* group_idx at 1 and returns when group_count is 1, so it runs at most
\* once in a call.)
advance(it) ==
    IF it.group_count # it.group_idx THEN ReadMessage(it)
    ELSE Only({
        IF ~count.ok
        THEN [it EXCEPT !.group_idx = 0, !.group_count = 0,
                        !.group_vo = NoOffset, !.item_vo = NoOffset,
                        !.value = NoValue, !.handle = count.h]
        ELSE Only({
            IF ~tag_size.ok \/ tag_size.value > MAX_MESSAGE_SIZE
            THEN Threw([it EXCEPT !.group_vo = Tell(it.handle),
                                  !.group_idx = 0,
                                  !.group_count = count.value])
            ELSE Only({
                IF ~tag.ok
                THEN Threw([it EXCEPT !.group_vo = Tell(it.handle),
                                      !.group_idx = 0,
                                      !.group_count = count.value])
                ELSE StartGroup([it EXCEPT !.group_vo = Tell(it.handle),
                                           !.group_idx = 0],
                                count, tag) :
                tag \in {ReadRaw(tag_size.h, tag_size.value)} }) :
            tag_size \in {ReadVarint(count.h, 5)} }) :
        count \in {ReadVarint(it.handle, 10)} })

\* MessageIterator::has_current
has_current(it) == it.item_vo # NoOffset

\* MessageIterator::tell_group
tell_group(it) ==
    IF it.group_vo = NoOffset THEN Tell(it.handle) ELSE it.group_vo

\* MessageIterator::seek_group, for a virtual offset that is not negative.
seek_group(it, virtual_offset) ==
    IF it.group_idx = 0 /\ it.group_vo = virtual_offset THEN it
    ELSE advance([it EXCEPT !.handle = Seek(@, virtual_offset),
                            !.group_count = 0, !.group_idx = 0])

\* What the history keeps of the value the iterator stands on.
Delivered(it, grp) ==
    [tag |-> it.value.first, msg |-> it.value.second,
     has_msg |-> it.value.has_second, grp |-> grp]

\* The history after the iterator moved from `before` to `after`: a group
\* was started if the iterator was at the end of one and read a count.
ReaderHistory(h, before, after) ==
    LET started == before.group_count = before.group_idx
                   /\ after.group_vo # NoOffset
        grp == IF started THEN h.grp + 1 ELSE h.grp
    IN  [h EXCEPT !.grp = grp,
                  !.decoded = IF after.state = "open" /\ has_current(after)
                              THEN Append(@, Delivered(after, grp)) ELSE @]

\* The members of a MessageIterator as its constructor initialises them,
\* over a BlockedGzipInputStream at the start of the file.
FreshIter ==
    [state |-> "open", value |-> NoValue, previous_tag |-> <<>>,
     group_count |-> 0, group_idx |-> 0,
     group_vo |-> NoOffset, item_vo |-> NoOffset,
     handle |-> [compressed |-> emitter.compress,
                 block_address |-> 0, block_offset |-> 0,
                 block_length |-> 0, block |-> <<>>, fpos |-> 0]]

\* MessageIterator::MessageIterator(in): wrap the finished file, read the
\* first message.
IterConstruct ==
    /\ emitter.state \in {"destroyed", "absent"}
    /\ iter.state = "none"
    /\ \E after \in {advance(FreshIter)} :
         /\ iter' = after
         /\ msgHist' = ReaderHistory(msgHist, FreshIter, after)
    /\ UNCHANGED <<emitter, sink, handler_calls>>
    /\ UNCHANGED <<muxVars, muxHist, vpkgVars, pipeVars, gzVars, regVars>>

\* ++it (or take()) on an iterator that has a current message.
IterNext ==
    /\ iter.state = "open"
    /\ has_current(iter)
    /\ msgHist.nreads < MaxReads
    /\ \E after \in {advance(iter)} :
         /\ iter' = after
         /\ msgHist' = [ReaderHistory(msgHist, iter, after)
                          EXCEPT !.nreads = @ + 1]
    /\ UNCHANGED <<emitter, sink, handler_calls>>
    /\ UNCHANGED <<muxVars, muxHist, vpkgVars, pipeVars, gzVars, regVars>>

\* seek_group to the start a listener was given for the k-th emitted group.
SeekGroup(k) ==
    /\ iter.state = "open"
    /\ msgHist.nseeks < MaxSeeks
    /\ k \in 1..Len(msgHist.emitted)
    /\ LET virtual_offset == msgHist.emitted[k].start
           at == [iter EXCEPT !.group_count = 0, !.group_idx = 0]
       IN  \E after \in {seek_group(iter, virtual_offset)} :
             /\ iter' = after
             /\ msgHist' = [ReaderHistory([msgHist EXCEPT !.grp = k - 1,
                                                          !.decoded = <<>>],
                                          at, after)
                              EXCEPT !.nseeks = @ + 1, !.sought = k,
                                     !.nreads = 0,
                                     !.cached = iter.previous_tag]
    /\ UNCHANGED <<emitter, sink, handler_calls>>
    /\ UNCHANGED <<muxVars, muxHist, vpkgVars, pipeVars, gzVars, regVars>>

MsgNext ==
    \/ EmitterNext
    \/ IterConstruct
    \/ IterNext
    \/ \E k \in 1..MaxEmits : SeekGroup(k)

(***************************************************************************)
(* Files that no MessageEmitter wrote                                      *)
(***************************************************************************)

\* Bounds of the files a reader is given: the count written in front of a
\* group, and the number of groups.
MaxCount == 2
MaxGroups == 2

\* The bytes of a group with the given count in front of it, whatever the
\* number of strings that follow.
RawGroup(count, tag, group) ==
    RCat(RCat(Varint(count), RCat(Varint(RLen(tag)), tag)),
         EncodeMessages(group))

RawGroups ==
    {RawGroup(count, tag, group) :
        count \in 0..MaxCount, tag \in {TagA, TagU, TagEmpty},
        group \in {<<>>, <<MsgSmall>>, <<MsgSmall, MsgEmpty>>}}

\* Files of up to n groups.
RECURSIVE FilesOf(_)
FilesOf(n) ==
    IF n = 0 THEN {<<>>}
    ELSE FilesOf(n - 1) \cup {RCat(f, g) : f \in FilesOf(n - 1), g \in RawGroups}

(***************************************************************************)
(* VPKG: loading and saving through the Registry                           *)
(***************************************************************************)

\* The C++ types the registry knows loaders and savers for.
Types == {1, 2}
\* Number of messages a saver hands to VPKG::save.
MaxSaved == 2
\* The max_group_size a MessageEmitter gets when none is given.
DefaultMaxGroupSize == 1000

\* What a bare (not type-tagged) file starts with, and the null sniff
\* predicate of a bare loader registered without one.
Magic == RRun(71, 3)
NoChecker == <<>>
\* The first bytes of a BGZF file: the gzip magic number, the deflate
\* method and the extra-field flag.
GzipMagic == <<<<31, 1>>, <<139, 1>>>>
BgzfHeader == RCat(GzipMagic, <<<<8, 1>>, <<4, 1>>>>)

\* The contents of the Registry's tables.  A loader can be registered for
\* the empty tag: it takes the groups that have no tag.
Registries ==
    {[tag_to_loader |-> loaders, type_to_bare_loaders |-> bare,
      type_to_saver |-> (1 :> TagA) @@ (2 :> TagB)] :
        loaders \in {{<<TagA, 1>>, <<TagB, 2>>},
                     {<<TagEmpty, 1>>, <<TagA, 1>>, <<TagB, 2>>}},
        bare \in {(1 :> <<>>) @@ (2 :> <<>>),
                  (1 :> <<NoChecker>>) @@ (2 :> <<Magic>>),
                  (1 :> <<NoChecker, Magic>>) @@ (2 :> <<Magic>>)}}

\* Files: a bare one, or groups, some with a count that is not the number
\* of strings that follow.
GroupDescs ==
    {[count |-> Len(group) + 1, tag |-> tag, group |-> group] :
        tag \in {TagA, TagB, TagU}, group \in {<<>>, <<MsgSmall>>}}
    \cup {[count |-> 0, tag |-> TagA, group |-> <<MsgSmall>>],
          [count |-> 2, tag |-> TagA, group |-> <<>>]}

RECURSIVE GroupSeqs(_)
GroupSeqs(n) ==
    IF n = 0 THEN {<<>>}
    ELSE GroupSeqs(n - 1)
         \cup {Append(gs, g) : gs \in GroupSeqs(n - 1), g \in GroupDescs}

FileDescs ==
    {[bare |-> FALSE, groups |-> gs] : gs \in GroupSeqs(MaxGroups)}
    \cup {[bare |-> TRUE, groups |-> <<>>]}

RECURSIVE GroupsBytes(_)
GroupsBytes(gs) ==
    IF gs = <<>> THEN <<>>
    ELSE RCat(RawGroup(Head(gs).count, Head(gs).tag, Head(gs).group),
              GroupsBytes(Tail(gs)))

FileBytes(file) == IF file.bare THEN Magic ELSE GroupsBytes(file.groups)

\* The bytes an istream on the file gives.  Of a BGZF file only the first
\* bytes are modelled.
StreamBytes == IF emitter.compress THEN BgzfHeader ELSE sink.raw

\* A null unique_ptr, a loaded object (by the bare loader of the given
\* index, or from the messages of a group), and a call left by an exception.
Null == [status |-> "null", type |-> 0, bare |-> 0, messages |-> <<>>]
Loaded(Wanted, bare, messages) ==
    [status |-> "loaded", type |-> Wanted, bare |-> bare, messages |-> messages]
Thrown == [status |-> "threw", type |-> 0, bare |-> 0, messages |-> <<>>]

\* Registry::find_loader<Wanted>(tag): is there a loader
find_loader(Wanted, tag) ==
    /\ RLen(tag) <= MAX_TAG_LENGTH
    /\ <<tag, Wanted>> \in vpkg.registry.tag_to_loader

\* BlockedGzipInputStream::SmellsLikeGzip
SmellsLikeGzip ==
    /\ RLen(StreamBytes) >= 1 /\ RTake(StreamBytes, 1) = RTake(GzipMagic, 1)
    /\ RLen(StreamBytes) >= 2 /\ RTake(StreamBytes, 2) = GzipMagic

\* CodedInputStream::ReadVarint32 / ReadVarint64 over an array.
RECURSIVE ReadVarintArray(_, _)
ReadVarintArray(buffer, left) ==
    IF left = 0 \/ buffer = <<>>
    THEN [ok |-> FALSE, value |-> 0, rest |-> buffer]
    ELSE IF buffer[1][1] < 128
    THEN [ok |-> TRUE, value |-> buffer[1][1], rest |-> RDrop(buffer, 1)]
    ELSE [ReadVarintArray(RDrop(buffer, 1), left - 1) EXCEPT
            !.value = (buffer[1][1] - 128) + 128 * @]

\* sniff_tag: characters to sniff, for a 64 bit varint, a 32 bit varint and
\* a tag of the greatest length.
to_sniff == 10 + 5 + MAX_TAG_LENGTH

\* sniff_tag, from the CodedInputStream made over the buffer on: the tag
\* the buffer starts a group of, or the empty string.
SniffedTag(buffer) ==
    LET group_count == ReadVarintArray(buffer, 10)
        tag_size == ReadVarintArray(group_count.rest, 5)
        tag == RTake(tag_size.rest, tag_size.value)
    IN  IF ~group_count.ok \/ group_count.value < 1 THEN <<>>
        ELSE IF ~tag_size.ok \/ tag_size.value = 0
                \/ tag_size.value > MAX_TAG_LENGTH THEN <<>>
        ELSE IF RLen(tag) # tag_size.value THEN <<>>
        ELSE IF ~is_valid_tag(tag) THEN <<>>
        ELSE tag

\* A sniff that gets the characters and does not give them back.
sniff_tag_without_unget(stream, tellg) ==
    Only({ [tag |-> SniffedTag(buffer), tellg |-> tellg + RLen(buffer)] :
           buffer \in {RTake(RDrop(stream, tellg), to_sniff)} })

\* MessageIterator::sniff_tag(istream&) on a stream that stands at byte
\* tellg of the given bytes and allows unget: up to to_sniff characters are
\* taken with get, as many are given back with unget, and the buffer is
\* looked at.
sniff_tag(stream, tellg) ==
    Only({ [tag |-> SniffedTag(buffer),
            tellg |-> (tellg + RLen(buffer)) - RLen(buffer)] :
           buffer \in {RTake(RDrop(stream, tellg), to_sniff)} })

\* VPKG::try_load_bare<Wanted>: the first bare loader of the type whose
\* sniff predicate is not null and accepts the stream.
try_load_bare(Wanted) ==
    LET bare_loaders == vpkg.registry.type_to_bare_loaders[Wanted]
        accepting == {i \in 1..Len(bare_loaders) :
                        /\ bare_loaders[i] # NoChecker
                        /\ RTake(StreamBytes, RLen(bare_loaders[i])) = bare_loaders[i]}
    IN  IF accepting = {} THEN Null
        ELSE Loaded(Wanted, CHOOSE i \in accepting : \A j \in accepting : i <= j, <<>>)

\* The loop a loader runs in try_load_encapsulated(MessageIterator&): feed
\* it the messages until they run out or the tag changes.
RECURSIVE FeedLoader(_, _, _)
FeedLoader(it, current_tag, messages) ==
    IF it.state = "open" /\ has_current(it) /\ it.value.first = current_tag
    THEN Only({ FeedLoader(next, current_tag, fed) :
                next \in {advance(it)},
                fed \in {IF it.value.has_second
                         THEN Append(messages, it.value.second)
                         ELSE messages} })
    ELSE [it |-> it, messages |-> messages]

\* A try_load_encapsulated that moves the iterator on when it finds no
\* loader.
try_load_encapsulated_it_advancing(Wanted, it) ==
    IF ~has_current(it) THEN [result |-> Null, it |-> it]
    ELSE IF ~find_loader(Wanted, it.value.first)
    THEN [result |-> Null, it |-> advance(it)]
    ELSE Only({ [result |-> IF fed.it.state = "threw" THEN Thrown
                            ELSE Loaded(Wanted, 0, fed.messages),
                 it |-> fed.it] :
                fed \in {FeedLoader(it, it.value.first, <<>>)} })

\* VPKG::try_load_encapsulated<Wanted>(MessageIterator&)
try_load_encapsulated_it(Wanted, it) ==
    IF ~has_current(it) THEN [result |-> Null, it |-> it]
    ELSE IF ~find_loader(Wanted, it.value.first)
    THEN [result |-> Null, it |-> it]
    ELSE Only({ [result |-> IF fed.it.state = "threw" THEN Thrown
                            ELSE Loaded(Wanted, 0, fed.messages),
                 it |-> fed.it] :
                fed \in {FeedLoader(it, it.value.first, <<>>)} })

\* VPKG::try_load_encapsulated<Wanted>(istream&)
try_load_encapsulated(Wanted) ==
    IF ~SmellsLikeGzip
       /\ \/ sniff_tag(StreamBytes, 0).tag = <<>>
          \/ ~find_loader(Wanted, sniff_tag(StreamBytes, 0).tag)
    THEN Null
    ELSE Only({ IF it.state = "threw" THEN Thrown
                ELSE try_load_encapsulated_it(Wanted, it).result :
                it \in {advance(FreshIter)} })

\* VPKG::try_load_one<Wanted>(istream&)
try_load_one(Wanted) ==
    Only({ IF result.status # "null" THEN result
           ELSE try_load_encapsulated(Wanted) :
           result \in {try_load_bare(Wanted)} })

\* A tuple of n null pointers.
Nulls(n) == [i \in 1..n |-> Null]

\* Something was loaded into the tuple.
found(results) == \E i \in 1..Len(results) : results[i].status = "loaded"

\* A bare load that tries every type, whatever the types before it gave.
try_load_each_bare(Wanted) ==
    [i \in 1..Len(Wanted) |-> try_load_bare(Wanted[i])]

\* VPKG::try_load_first_bare<FirstPriority, Rest...>
RECURSIVE try_load_first_bare(_)
try_load_first_bare(Wanted) ==
    Only({ IF first_result.status = "loaded" \/ Len(Wanted) = 1
           THEN <<first_result>> \o Nulls(Len(Wanted) - 1)
           ELSE <<first_result>> \o try_load_first_bare(Tail(Wanted)) :
           first_result \in {try_load_bare(Head(Wanted))} })

\* VPKG::try_load_first_encapsulated<FirstPriority, Rest...>; an exception
\* ends the call.
RECURSIVE try_load_first_encapsulated(_, _)
try_load_first_encapsulated(Wanted, it) ==
    Only({ IF first.result.status # "null" \/ Len(Wanted) = 1
           THEN <<first.result>> \o Nulls(Len(Wanted) - 1)
           ELSE <<first.result>>
                \o try_load_first_encapsulated(Tail(Wanted), first.it) :
           first \in {try_load_encapsulated_it(Head(Wanted), it)} })

\* VPKG::try_load_first<Wanted...>(istream&).  encapsulated tells whether
\* a MessageIterator was made on the stream.
try_load_first(Wanted) ==
    Only({ IF found(results)
           THEN [results |-> results, encapsulated |-> FALSE]
           ELSE Only({ [results |-> IF it.state = "threw"
                                    THEN <<Thrown>> \o Nulls(Len(Wanted) - 1)
                                    ELSE try_load_first_encapsulated(Wanted, it),
                        encapsulated |-> TRUE] :
                       it \in {advance(FreshIter)} }) :
           results \in {try_load_first_bare(Wanted)} })

\* VPKG::save<Have>(have, out), for an object the saver turns into the given
\* messages: the emitter made on the stream, write(tag), a write_copy for
\* each message, and the emitter's destructor.
RECURSIVE write_copies(_, _, _)
write_copies(w, tag, messages) ==
    IF messages = <<>> THEN w
    ELSE write_copies(write_message(w, tag, Head(messages)), tag, Tail(messages))

save(Have, messages) ==
    LET tag == vpkg.registry.type_to_saver[Have]
        made == [EmitterWorld EXCEPT !.e.state = "open", !.e.compress = FALSE,
                                     !.e.max_group_size = DefaultMaxGroupSize]
        written == write_copies(write_tag(made, tag), tag, messages)
    IN  [emit_group(written) EXCEPT !.e.state = "destroyed",
                                    !.h.call = <<"save", tag, messages>>]

\* No call made yet.
NotCalled == [Wanted |-> <<>>, result |-> Null]
NotFirst == [Wanted |-> <<>>, results |-> <<>>, encapsulated |-> FALSE]
NotSniffed == [called |-> FALSE, tag |-> <<>>, before |-> 0, after |-> 0]
NotEncapsulated ==
    [Wanted |-> 0, result |-> Null, before |-> [state |-> "none"],
     after |-> [state |-> "none"]]

\* No registry in use, no stream given.
VpkgIdle ==
    vpkg = [state |-> "idle", registry |-> CHOOSE r \in Registries : TRUE,
            file |-> [bare |-> FALSE, groups |-> <<>>],
            one |-> NotCalled, first |-> NotFirst, sniffed |-> NotSniffed,
            encapsulated |-> NotEncapsulated]

\* The sink that holds the given bytes, as a BGZF file or plain.
FileSink(bytes, compress) ==
    IF compress
    THEN [BgzfFlush(BgzfWrite(EmptySink, bytes)) EXCEPT !.eof = TRUE]
    ELSE [EmptySink EXCEPT !.raw = bytes]

\* try_load_one<Wanted> on a stream freshly opened on the file.
TryLoadOne(Wanted) ==
    /\ vpkg.state = "ready"
    /\ vpkg.one = NotCalled
    /\ vpkg' = [vpkg EXCEPT !.one = [Wanted |-> <<Wanted>>,
                                     result |-> try_load_one(Wanted)]]
    /\ UNCHANGED <<muxVars, muxHist, msgVars, pipeVars, frame, gzVars, regVars>>

\* try_load_first<Wanted...> on a stream freshly opened on the file.
TryLoadFirst(Wanted) ==
    /\ vpkg.state = "ready"
    /\ vpkg.first = NotFirst
    /\ \E loaded \in {try_load_first(Wanted)} :
         vpkg' = [vpkg EXCEPT !.first = [Wanted |-> Wanted,
                                         results |-> loaded.results,
                                         encapsulated |-> loaded.encapsulated]]
    /\ UNCHANGED <<muxVars, muxHist, msgVars, pipeVars, frame, gzVars, regVars>>

\* try_load_encapsulated<Wanted>(it) on a MessageIterator freshly made on
\* the file.
TryLoadEncapsulated(Wanted) ==
    /\ vpkg.state = "ready"
    /\ vpkg.encapsulated = NotEncapsulated
    /\ \E it \in {advance(FreshIter)} :
         /\ it.state = "open"
         /\ \E loaded \in {try_load_encapsulated_it(Wanted, it)} :
              vpkg' = [vpkg EXCEPT !.encapsulated =
                          [Wanted |-> Wanted, result |-> loaded.result,
                           before |-> it, after |-> loaded.it]]
    /\ UNCHANGED <<muxVars, muxHist, msgVars, pipeVars, frame, gzVars, regVars>>

\* sniff_tag on a stream freshly opened on the file.
SniffTag ==
    /\ vpkg.state = "ready"
    /\ ~vpkg.sniffed.called
    /\ \E sniffed \in {sniff_tag(StreamBytes, 0)} :
         vpkg' = [vpkg EXCEPT !.sniffed = [called |-> TRUE, tag |-> sniffed.tag,
                                           before |-> 0, after |-> sniffed.tellg]]
    /\ UNCHANGED <<muxVars, muxHist, msgVars, pipeVars, frame, gzVars, regVars>>

\* VPKG::save<Have> to a stream nothing was written to.
Save(Have, messages) ==
    /\ vpkg.state = "ready"
    /\ vpkg.one = NotCalled /\ vpkg.first = NotFirst /\ ~vpkg.sniffed.called
    /\ sink = EmptySink /\ ~emitter.compress
    /\ SetEmitterWorld(save(Have, messages))
    /\ vpkg' = [vpkg EXCEPT !.state = "saved"]
    /\ UNCHANGED iter
    /\ UNCHANGED <<muxVars, muxHist, pipeVars, frame, gzVars, regVars>>

\* Sequences of at most n of the given messages.
RECURSIVE MessageSeqs(_)
MessageSeqs(n) ==
    IF n = 0 THEN {<<>>}
    ELSE MessageSeqs(n - 1)
         \cup {Append(ms, m) : ms \in MessageSeqs(n - 1), m \in {MsgSmall, MsgEmpty}}

WantedLists == {<<1>>, <<2>>, <<1, 2>>, <<2, 1>>}

VpkgNext ==
    \/ \E Wanted \in Types : TryLoadOne(Wanted)
    \/ \E Wanted \in WantedLists : TryLoadFirst(Wanted)
    \/ \E Wanted \in Types : TryLoadEncapsulated(Wanted)
    \/ SniffTag
    \/ \E Have \in Types : \E messages \in MessageSeqs(MaxSaved) :
          Save(Have, messages)

(***************************************************************************)
(* The parallel batch loops                                                *)
(***************************************************************************)

\* Number of items the MessageIterator yields to for_each_parallel_impl.
MaxItems == 5
\* The even batch sizes tried.
BatchSizes == {2, 4}
\* paired_for_each_parallel_after_wait is also tried with batch sizes that
\* are no power of two and that exceed the cap.
AlnBatchSizes == {2, 6, 8194}

max_max_batches_outstanding == 8192
\* max_batches_outstanding as for_each_parallel_impl initialises it.
InitialMaxBatchesOutstanding == 256

\* batch == nullptr
NoBatch == <<-1>>

\* Registry::tag_to_protobuf, and T::descriptor()->full_name() of the two
\* Protobuf types.
tag_to_protobuf == (TagA :> 1) @@ (TagB :> 2)
full_name(Message) == RRun(118, 2 + Message)

\* A check that lets every tag pass.
check_any_tag(Message, tag) == TRUE

\* Registry::check_protobuf_tag<Message>(tag)
check_protobuf_tag(Message, tag) ==
    IF tag = <<>> THEN TRUE
    ELSE IF RLen(tag) > MAX_TAG_LENGTH THEN FALSE
    ELSE IF tag \in DOMAIN tag_to_protobuf THEN tag_to_protobuf[tag] = Message
    ELSE tag = full_name(Message)

\* The items an iterator yields: a tag with a message, or the tag alone of
\* a group without messages.  A message is known by its place in the input.
ItemKinds ==
    {[tag |-> TagA, has_second |-> TRUE], [tag |-> TagB, has_second |-> TRUE],
     [tag |-> TagEmpty, has_second |-> TRUE], [tag |-> TagA, has_second |-> FALSE]}

RECURSIVE ItemSeqs(_)
ItemSeqs(n) ==
    IF n = 0 THEN {<<>>}
    ELSE ItemSeqs(n - 1)
         \cup {Append(items, kind) : items \in ItemSeqs(n - 1), kind \in ItemKinds}

\* The callbacks a batch gets when only its pairs are run.
RunPairsOnly(calls, b) ==
    [calls EXCEPT
       !.made = @ \cup {<<"lambda2", b[2 * k - 1], b[2 * k]>> : k \in 1..(Len(b) \div 2)},
       !.n = @ + (Len(b) \div 2)]

\* The callbacks a batch gets: lambda2 on its pairs and, in the final batch
\* only, lambda1 on an odd last element.
RunBatch(calls, b) ==
    [calls EXCEPT
       !.made = @ \cup {<<"lambda2", b[2 * k - 1], b[2 * k]>> : k \in 1..(Len(b) \div 2)}
                  \cup (IF Len(b) % 2 = 1 THEN {<<"lambda1", b[Len(b)]>>} ELSE {}),
       !.n = @ + (Len(b) \div 2) + (Len(b) % 2)]

\* A cap that also doubles after a batch that ran in the main thread
\* because the predicate was false.
NextMaxBatchesOutstandingAlways(b) ==
    IF (4 * b) \div 3 < max_batches_outstanding
       /\ max_batches_outstanding < max_max_batches_outstanding
    THEN max_batches_outstanding * 2
    ELSE max_batches_outstanding

\* The cap after the main thread ran a batch itself and found b batches
\* outstanding.
NextMaxBatchesOutstanding(b) ==
    IF (4 * b) \div 3 < max_batches_outstanding
       /\ max_batches_outstanding < max_max_batches_outstanding
       /\ ~do_single_threaded
    THEN max_batches_outstanding * 2
    ELSE max_batches_outstanding

\* No batch loop is running.
PipeIdle ==
    /\ batch_size = 0
    /\ max_batches_outstanding = 0
    /\ batches_outstanding = 0
    /\ batch = NoBatch
    /\ first_message = TRUE
    /\ do_single_threaded = FALSE
    /\ more_data = FALSE
    /\ message_it = <<>>
    /\ tasks = {}
    /\ main_pc = "idle"
    /\ lambda_calls = [input |-> <<>>, made |-> {}, n |-> 0]

\* for_each_parallel_impl<T> for the first Protobuf type, as it enters its
\* while loop.
PipeStarted ==
    /\ batch_size \in BatchSizes
    /\ max_batches_outstanding = InitialMaxBatchesOutstanding
    /\ batches_outstanding = 0
    /\ batch = NoBatch
    /\ first_message = TRUE
    /\ do_single_threaded = FALSE
    /\ more_data = TRUE
    /\ \E items \in ItemSeqs(MaxItems) :
         /\ message_it = [i \in 1..Len(items) |->
                            [tag |-> items[i].tag,
                             has_second |-> items[i].has_second, id |-> i]]
         /\ lambda_calls = [input |-> message_it, made |-> {}, n |-> 0]
    /\ tasks = {}
    /\ main_pc = "loop"

\* One turn of the while loop of for_each_parallel_impl: take an item,
\* check its tag, put its message into the batch, and hand a full batch to
\* a task or keep it to run it in this thread.
MainTake ==
    /\ main_pc = "loop"
    /\ message_it # <<>>
    /\ LET tag_and_data == Head(message_it)
           right_tag == check_protobuf_tag(1, tag_and_data.tag)
           made == IF batch = NoBatch THEN <<>> ELSE batch
           filled == IF tag_and_data.has_second
                     THEN Append(made, tag_and_data.id) ELSE made
       IN  /\ message_it' = Tail(message_it)
           /\ IF ~right_tag
              THEN /\ main_pc' = IF first_message THEN "threw" ELSE main_pc
                   /\ UNCHANGED <<batch, first_message, batches_outstanding,
                                  tasks, do_single_threaded>>
              ELSE /\ first_message' = FALSE
                   /\ IF Len(filled) = batch_size
                      THEN /\ batches_outstanding' = batches_outstanding + 1
                           /\ \E parallel_allowed \in BOOLEAN :
                                IF batches_outstanding + 1 >= max_batches_outstanding
                                   \/ ~parallel_allowed
                                THEN /\ do_single_threaded' = ~parallel_allowed
                                     /\ main_pc' = "batch"
                                     /\ batch' = filled
                                     /\ UNCHANGED tasks
                                ELSE /\ do_single_threaded' = FALSE
                                     /\ main_pc' = main_pc
                                     /\ batch' = NoBatch
                                     /\ tasks' = tasks \cup {filled}
                      ELSE /\ batch' = filled
                           /\ UNCHANGED <<batches_outstanding, tasks, main_pc,
                                          do_single_threaded>>
    /\ UNCHANGED <<batch_size, max_batches_outstanding, more_data, lambda_calls>>
    /\ UNCHANGED <<muxVars, muxHist, msgVars, vpkgVars, gzVars, regVars>>

\* The main thread runs the batch it kept, then looks at the cap.
MainRunBatch ==
    /\ main_pc = "batch"
    /\ lambda_calls' = RunBatch(lambda_calls, batch)
    /\ batches_outstanding' = batches_outstanding - 1
    /\ max_batches_outstanding' = NextMaxBatchesOutstanding(batches_outstanding - 1)
    /\ batch' = NoBatch
    /\ do_single_threaded' = FALSE
    /\ main_pc' = "loop"
    /\ UNCHANGED <<batch_size, first_message, more_data, message_it, tasks>>
    /\ UNCHANGED <<muxVars, muxHist, msgVars, vpkgVars, gzVars, regVars>>

\* An OpenMP task runs its batch.
TaskRun(b) ==
    /\ b \in tasks
    /\ lambda_calls' = RunBatch(lambda_calls, b)
    /\ batches_outstanding' = batches_outstanding - 1
    /\ tasks' = tasks \ {b}
    /\ UNCHANGED <<batch_size, max_batches_outstanding, batch, first_message,
                   do_single_threaded, more_data, message_it, main_pc>>
    /\ UNCHANGED <<muxVars, muxHist, msgVars, vpkgVars, gzVars, regVars>>

\* The iterator has run out: past the taskwait the main thread runs the
\* final batch and the call returns.
MainFinal ==
    /\ main_pc = "loop"
    /\ message_it = <<>>
    /\ tasks = {}
    /\ lambda_calls' = IF batch = NoBatch THEN lambda_calls
                       ELSE RunBatch(lambda_calls, batch)
    /\ batch' = NoBatch
    /\ main_pc' = "done"
    /\ UNCHANGED <<batch_size, max_batches_outstanding, batches_outstanding,
                   first_message, do_single_threaded, more_data, message_it, tasks>>
    /\ UNCHANGED <<muxVars, muxHist, msgVars, vpkgVars, gzVars, regVars>>

PipeNext ==
    \/ MainTake
    \/ MainRunBatch
    \/ \E b \in tasks : TaskRun(b)
    \/ MainFinal

\* paired_for_each_parallel_after_wait as it enters its while loop
\* (unpaired_for_each_parallel is the same loop with a predicate that is
\* always true).  What the batches hold is left out: batch stays null, and
\* the tasks that have not run are batches_outstanding less the batch the
\* main thread runs itself.
AlnStarted ==
    /\ batch_size \in AlnBatchSizes
    /\ max_batches_outstanding = batch_size
    /\ batches_outstanding = 0
    /\ batch = NoBatch
    /\ first_message = TRUE
    /\ do_single_threaded = FALSE
    /\ more_data = TRUE
    /\ message_it = <<>>
    /\ tasks = {}
    /\ main_pc = "loop"
    /\ lambda_calls = [input |-> <<>>, made |-> {}, n |-> 0]

\* A turn of the while loop that still hands a batch to a task when the
\* batches outstanding, this one included, are as many as the cap.
AlnFillAtCap ==
    /\ main_pc = "loop"
    /\ more_data
    /\ \E got \in {0, 1, batch_size} :
         /\ more_data' = (got = batch_size)
         /\ IF got = 0
            THEN UNCHANGED <<batches_outstanding, do_single_threaded, main_pc>>
            ELSE /\ batches_outstanding' = batches_outstanding + 1
                 /\ \E parallel_allowed \in BOOLEAN :
                      IF batches_outstanding + 1 > max_batches_outstanding
                         \/ ~parallel_allowed
                      THEN /\ do_single_threaded' = ~parallel_allowed
                           /\ main_pc' = "batch"
                      ELSE /\ do_single_threaded' = FALSE
                           /\ main_pc' = main_pc
    /\ UNCHANGED <<batch_size, max_batches_outstanding, batch, first_message,
                   message_it, tasks, lambda_calls>>
    /\ UNCHANGED <<muxVars, muxHist, msgVars, vpkgVars, gzVars, regVars>>

\* One turn of the while loop: get_pair_if_available fills a batch (all of
\* it, part of it when the data end, or nothing), and a batch that is not
\* empty goes to a task or is kept to run in this thread.
AlnFill ==
    /\ main_pc = "loop"
    /\ more_data
    /\ \E got \in {0, 1, batch_size} :
         /\ more_data' = (got = batch_size)
         /\ IF got = 0
            THEN UNCHANGED <<batches_outstanding, do_single_threaded, main_pc>>
            ELSE /\ batches_outstanding' = batches_outstanding + 1
                 /\ \E parallel_allowed \in BOOLEAN :
                      IF batches_outstanding + 1 >= max_batches_outstanding
                         \/ ~parallel_allowed
                      THEN /\ do_single_threaded' = ~parallel_allowed
                           /\ main_pc' = "batch"
                      ELSE /\ do_single_threaded' = FALSE
                           /\ main_pc' = main_pc
    /\ UNCHANGED <<batch_size, max_batches_outstanding, batch, first_message,
                   message_it, tasks, lambda_calls>>
    /\ UNCHANGED <<muxVars, muxHist, msgVars, vpkgVars, gzVars, regVars>>

\* An AlnRunBatch that does not take its batch off batches_outstanding.
AlnRunBatchUncounted ==
    /\ main_pc = "batch"
    /\ max_batches_outstanding' = NextMaxBatchesOutstanding(batches_outstanding - 1)
    /\ do_single_threaded' = FALSE
    /\ main_pc' = "loop"
    /\ UNCHANGED <<batch_size, batch, first_message, more_data, message_it,
                   tasks, lambda_calls, batches_outstanding>>
    /\ UNCHANGED <<muxVars, muxHist, msgVars, vpkgVars, gzVars, regVars>>

\* The main thread has run the batch it kept, and looks at the cap.
AlnRunBatch ==
    /\ main_pc = "batch"
    /\ batches_outstanding' = batches_outstanding - 1
    /\ max_batches_outstanding' = NextMaxBatchesOutstanding(batches_outstanding - 1)
    /\ do_single_threaded' = FALSE
    /\ main_pc' = "loop"
    /\ UNCHANGED <<batch_size, batch, first_message, more_data, message_it,
                   tasks, lambda_calls>>
    /\ UNCHANGED <<muxVars, muxHist, msgVars, vpkgVars, gzVars, regVars>>

\* A task has run its batch.
AlnTaskDone ==
    /\ batches_outstanding > (IF main_pc = "batch" THEN 1 ELSE 0)
    /\ batches_outstanding' = batches_outstanding - 1
    /\ UNCHANGED <<batch_size, max_batches_outstanding, batch, first_message,
                   do_single_threaded, more_data, message_it, tasks, main_pc,
                   lambda_calls>>
    /\ UNCHANGED <<muxVars, muxHist, msgVars, vpkgVars, gzVars, regVars>>

\* The data have run out and the tasks are done: the call returns.
AlnReturn ==
    /\ main_pc = "loop"
    /\ ~more_data
    /\ batches_outstanding = 0
    /\ main_pc' = "done"
    /\ UNCHANGED <<batch_size, max_batches_outstanding, batches_outstanding,
                   batch, first_message, do_single_threaded, more_data,
                   message_it, tasks, lambda_calls>>
    /\ UNCHANGED <<muxVars, muxHist, msgVars, vpkgVars, gzVars, regVars>>

AlnNext ==
    \/ AlnFill
    \/ AlnRunBatch
    \/ AlnTaskDone
    \/ AlnReturn

(***************************************************************************)
(* The start of a group                                                    *)
(***************************************************************************)

\* The largest count written in front of a group.
MaxFrameCount == 1500

\* What emit_group writes first: WriteVarint64 of the count, WriteVarint32
\* of the tag's length.
GroupPrologue(count, tag_length) == RCat(Varint(count), Varint(tag_length))

\* No group is being written.
FrameIdle == frame = [state |-> "idle", count |-> 0, tag_length |-> 0, bytes |-> <<>>]

\* emit_group is to write a group of count - 1 messages under a tag of a
\* legal length.
FrameStarted ==
    frame \in {[state |-> "start", count |-> count, tag_length |-> tag_length,
                bytes |-> <<>>] :
                  count \in 1..MaxFrameCount, tag_length \in 1..MAX_TAG_LENGTH}

\* emit_group writes the count and the tag's length.
WritePrologue ==
    /\ frame.state = "start"
    /\ frame' = [frame EXCEPT !.state = "written",
                              !.bytes = GroupPrologue(frame.count, frame.tag_length)]
    /\ UNCHANGED <<muxVars, muxHist, msgVars, pipeVars, vpkg, gzVars, regVars>>

FrameNext == WritePrologue

(***************************************************************************)
(* BlockedGzipInputStream, with its calls made one by one                  *)
(***************************************************************************)

\* Number of Next, BackUp, Skip and Tell calls made on the stream.
MaxGzCalls == 4

\* What bgzf_compression reports of the data: "none" for its 0 (no
\* compression), "gzip" for its 1 (gzip that is not blocked), "bgzf" for
\* its 2.
Compressions == {"none", "gzip", "bgzf"}

\* The data behind the stream, as it is once inflated: nothing, a few
\* bytes, and more than bgzf_read_block takes of a plain file at once.
PlainData ==
    {<<>>,
     RCat(RRun(97, 2), RCat(RRun(98, 1), RRun(99, 2))),
     RCat(RRun(97, BGZF_MAX_BLOCK_SIZE), RRun(98, 3))}

\* BGZF files as the data of their blocks, one with an empty block in the
\* middle.
BlockData ==
    {<<>>,
     <<RCat(RRun(97, 2), RRun(98, 1))>>,
     <<RRun(97, 2), RCat(RRun(98, 1), RRun(99, 2))>>,
     <<RRun(97, 2), <<>>, RRun(98, 3)>>}

\* A test that takes offsets as known for blocked data only.
know_offset_if_blocked(file_start, good, compression) ==
    file_start >= 0 /\ good /\ compression = "bgzf"

\* The constructor's test: the stream can tell where it is and is good,
\* and the data are blocked or not compressed at all.
know_offset(file_start, good, compression) ==
    file_start >= 0 /\ good /\ (compression = "bgzf" \/ compression = "none")

\* BlockedGzipInputStream::MissingEOF: bgzf_check_EOF finds no end-of-file
\* block.  It can look only if it can seek; if not it reports that, which
\* is not taken as a missing block.
MissingEOF(file_start, compression) ==
    compression = "bgzf" /\ file_start >= 0 /\ ~sink.eof

\* No BlockedGzipInputStream yet.
NoGz(compression, file_start, good) ==
    [state |-> "none", compression |-> compression,
     file_start |-> file_start, good |-> good,
     know_offset |-> FALSE, byte_count |-> 0,
     handle |-> [compressed |-> compression = "bgzf",
                 block_address |-> 0, block_offset |-> 0,
                 block_length |-> 0, block |-> <<>>, fpos |-> 0],
     \* history
     ncalls |-> 0, call |-> <<>>, returned |-> 0, backed_up |-> 0,
     read |-> <<>>, tell |-> <<>>]

GzIdle == gz = NoGz("none", 0, TRUE)

\* A stream, at its start if it can tell so, over one of the files.
GzStarted ==
    \E compression \in Compressions, file_start \in {-1, 0}, good \in BOOLEAN :
       /\ gz = NoGz(compression, file_start, good)
       /\ IF compression = "bgzf"
          THEN \E blocks \in BlockData, eof \in BOOLEAN :
                  sink = [EmptySink EXCEPT !.blocks = blocks, !.eof = eof]
          ELSE \E data \in PlainData : sink = [EmptySink EXCEPT !.raw = data]

\* BlockedGzipInputStream::BlockedGzipInputStream.  Plain gzip is read
\* through the handle as the inflated data, BGZF_MAX_BLOCK_SIZE bytes at a
\* time.
GzConstruct ==
    /\ gz.state = "none"
    /\ gz' = [gz EXCEPT
                !.state = IF MissingEOF(gz.file_start, gz.compression)
                          THEN "threw" ELSE "open",
                !.know_offset = know_offset(gz.file_start, gz.good,
                                            gz.compression),
                !.call = <<"construct">>]
    /\ UNCHANGED <<muxVars, muxHist, msgVars, vpkgVars, pipeVars, regVars>>

\* BlockedGzipInputStream::Next on the stream g: bytes are counted into
\* byte_count when they come from a block just read, not when they are
\* handed out again after a BackUp.  (For plain gzip Next sets block_offset
\* to 0 before the read, which is what bgzf_read_block does for the rest.)
GzNext(g) ==
    Only({ [g EXCEPT
              !.handle = r.h,
              !.byte_count = IF r.ok /\ fresh THEN @ + RLen(r.data) ELSE @,
              !.call = <<"Next", r.ok, RLen(r.data),
                         g.handle.block_length - g.handle.block_offset>>,
              !.returned = @ + RLen(r.data),
              !.read = RCat(@, r.data)] :
           r \in {Next(g.handle)},
           fresh \in {~(g.handle.block_length # 0
                        /\ g.handle.block_offset # g.handle.block_length)} })

\* BlockedGzipInputStream::BackUp on the stream g.
GzBackUp(g, count) ==
    [g EXCEPT !.handle = BackUp(@, count),
              !.call = <<"BackUp", count>>,
              !.backed_up = @ + count,
              !.read = RTake(@, RLen(@) - count)]

\* BlockedGzipInputStream::Skip
RECURSIVE GzSkip(_, _)
GzSkip(g, count) ==
    IF count > 0
    THEN Only({ IF ~next.call[2] THEN [next EXCEPT !.call = <<"Skip", FALSE>>]
                ELSE GzSkip(next, count - next.call[3]) :
                next \in {GzNext(g)} })
    ELSE IF count < 0
    THEN [GzBackUp(g, -count) EXCEPT !.call = <<"Skip", TRUE>>]
    ELSE [g EXCEPT !.call = <<"Skip", TRUE>>]

\* BlockedGzipInputStream::Tell
GzTell(g) == IF g.know_offset THEN Tell(g.handle) ELSE NoOffset

GzOpen == gz.state = "open" /\ gz.ncalls < MaxGzCalls

\* A call of Next.
CallNext ==
    /\ GzOpen
    /\ gz' = [GzNext(gz) EXCEPT !.ncalls = @ + 1]
    /\ UNCHANGED <<muxVars, muxHist, msgVars, vpkgVars, pipeVars, regVars>>

\* A call of BackUp, right after a Next that returned a buffer, with a
\* count of no more than the buffer's size.
CallBackUp(count) ==
    /\ GzOpen
    /\ gz.call[1] = "Next" /\ gz.call[2]
    /\ count \in 1..gz.call[3]
    /\ gz' = [GzBackUp(gz, count) EXCEPT !.ncalls = @ + 1]
    /\ UNCHANGED <<muxVars, muxHist, msgVars, vpkgVars, pipeVars, regVars>>

\* A call of Skip.
CallSkip(count) ==
    /\ GzOpen
    /\ gz' = [GzSkip(gz, count) EXCEPT !.ncalls = @ + 1]
    /\ UNCHANGED <<muxVars, muxHist, msgVars, vpkgVars, pipeVars, regVars>>

\* A call of Tell.
CallTell ==
    /\ GzOpen
    /\ gz' = [gz EXCEPT !.ncalls = @ + 1, !.call = <<"Tell">>,
                        !.tell = <<GzTell(gz)>>]
    /\ UNCHANGED <<muxVars, muxHist, msgVars, vpkgVars, pipeVars, regVars>>

GzNextCalls ==
    \/ GzConstruct
    \/ CallNext
    \/ \E count \in {1, 2, 3, BGZF_MAX_BLOCK_SIZE} : CallBackUp(count)
    \/ \E count \in {1, 3, BGZF_MAX_BLOCK_SIZE + 1} : CallSkip(count)
    \/ CallTell

(***************************************************************************)
(* The Registry's tables under registration                                *)
(***************************************************************************)

\* Number of register_* calls made.
MaxRegistrations == 3

\* The functions that get registered, by number; 0 stands for none.
Adapters == {1, 2}
\* The tags things get registered under.
RegistryTags == {TagEmpty, TagA, TagB}

\* The Protobuf message types, and the tags they get registered under:
\* the registry's tags and the full name of the first type.
ProtobufMessages == {1, 2}
ProtobufTags == RegistryTags \cup {full_name(1)}

\* The tables as get_tables() first makes them: empty.  An entry that is
\* not there is 0 where functions or types are kept and <<>> where pairs,
\* lists or a tag (kept as <<tag>>) are.
NoTables ==
    [tag_to_loader |-> [key \in RegistryTags \X Types |-> 0],
     type_to_saver |-> [type \in Types |-> <<>>],
     type_to_bare_loaders |-> [type \in Types |-> <<>>],
     tag_to_protobuf |-> [tag \in ProtobufTags |-> 0],
     protobuf_to_tag |-> [Message \in ProtobufMessages |-> <<>>],
     nregistered |-> 0]

RegIdle == tables = NoTables

\* Registry::find_loader<Want>(tag) on the tables t: the loader, or 0 for
\* nullptr.
find_loader_in(t, Want, tag) ==
    IF RLen(tag) > MAX_TAG_LENGTH THEN 0
    ELSE t.tag_to_loader[<<tag, Want>>]

\* Registry::find_saver<Have>(): the pair of tag and saver, or <<>> for
\* nullptr.
find_saver(t, Have) == t.type_to_saver[Have]

\* Registry::find_bare_loaders<Want>(): the loaders, <<>> for nullptr.
find_bare_loaders(t, Want) == t.type_to_bare_loaders[Want]

\* Registry::register_loader<Handled, Bases...>(tag, loader): the loader
\* is assigned to the entry of the tag for the type and for each base.
register_loader(tag, Handled, Bases, loader) ==
    /\ tables.nregistered < MaxRegistrations
    /\ RLen(tag) <= MAX_TAG_LENGTH
    /\ tables' = [tables EXCEPT
         !.tag_to_loader =
             [key \in RegistryTags \X Types |->
                 IF key[1] = tag /\ key[2] \in ({Handled} \cup Bases)
                 THEN loader ELSE @[key]],
         !.nregistered = @ + 1]
    /\ UNCHANGED <<muxVars, muxHist, msgVars, vpkgVars, pipeVars, gzVars>>

\* Registry::register_bare_loader_with_filename<Handled, Bases...>: the
\* loader is put at the back of the list of the type and of each base.
register_bare_loader_with_filename(Handled, Bases, loader) ==
    /\ tables.nregistered < MaxRegistrations
    /\ tables' = [tables EXCEPT
         !.type_to_bare_loaders =
             [type \in Types |->
                 IF type \in ({Handled} \cup Bases)
                 THEN Append(@[type], loader) ELSE @[type]],
         !.nregistered = @ + 1]
    /\ UNCHANGED <<muxVars, muxHist, msgVars, vpkgVars, pipeVars, gzVars>>

\* Registry::register_saver<Handled>(tag, saver): emplace, which leaves an
\* entry that is there as it is.
register_saver(tag, Handled, saver) ==
    /\ tables.nregistered < MaxRegistrations
    /\ RLen(tag) <= MAX_TAG_LENGTH
    /\ tag # <<>>
    /\ tables' = [tables EXCEPT
         !.type_to_saver[Handled] = IF @ = <<>> THEN <<tag, saver>> ELSE @,
         !.nregistered = @ + 1]
    /\ UNCHANGED <<muxVars, muxHist, msgVars, vpkgVars, pipeVars, gzVars>>

\* Registry::register_protobuf<Message>(tag): emplace in both directions,
\* each leaving an entry that is there as it is.
register_protobuf(Message, tag) ==
    /\ tables.nregistered < MaxRegistrations
    /\ RLen(tag) <= MAX_TAG_LENGTH
    /\ tables' = [tables EXCEPT
         !.tag_to_protobuf[tag] = IF @ = 0 THEN Message ELSE @,
         !.protobuf_to_tag[Message] = IF @ = <<>> THEN <<tag>> ELSE @,
         !.nregistered = @ + 1]
    /\ UNCHANGED <<muxVars, muxHist, msgVars, vpkgVars, pipeVars, gzVars>>

\* Registry::get_protobuf_tag<Message>() on the tables t: the tag
\* registered for the type, else the type's full name.
get_protobuf_tag(t, Message) ==
    IF t.protobuf_to_tag[Message] # <<>> THEN t.protobuf_to_tag[Message][1]
    ELSE full_name(Message)

\* Registry::check_protobuf_tag<Message>(tag) on the tables t.
check_protobuf_tag_in(t, Message, tag) ==
    IF tag = <<>> THEN TRUE
    ELSE IF RLen(tag) > MAX_TAG_LENGTH THEN FALSE
    ELSE IF tag \in ProtobufTags /\ t.tag_to_protobuf[tag] # 0
         THEN t.tag_to_protobuf[tag] = Message
    ELSE tag = full_name(Message)

\* The tables t after register_loader<Handled, Bases...>(tag, loader),
\* after register_saver<Handled>(tag, saver) and after
\* register_bare_loader_with_filename<Handled, Bases...>(loader, sniff).
loader_registered(t, tag, Handled, Bases, loader) ==
    [t EXCEPT !.tag_to_loader =
        [key \in RegistryTags \X Types |->
            IF key[1] = tag /\ key[2] \in ({Handled} \cup Bases)
            THEN loader ELSE @[key]]]

saver_registered(t, tag, Handled, saver) ==
    [t EXCEPT !.type_to_saver[Handled] = IF @ = <<>> THEN <<tag, saver>> ELSE @]

bare_loader_registered(t, Handled, Bases, loader) ==
    [t EXCEPT !.type_to_bare_loaders =
        [type \in Types |->
            IF type \in ({Handled} \cup Bases)
            THEN Append(@[type], loader) ELSE @[type]]]

\* wrap_bare_loader and wrap_bare_saver make a function of their own out
\* of the one they are given.
wrap_bare_loader(loader) == loader + 2
wrap_bare_saver(saver) == saver + 2

\* The lists of tags register_loader_saver is called with.
TagLists ==
    {<<tag>> : tag \in RegistryTags}
        \cup {<<first, other>> : first \in {TagA, TagB}, other \in RegistryTags}

\* The tables t after the loop over tags[i], i >= 1, of
\* register_loader_saver: the other tags get the loader only.
RECURSIVE other_tags_registered(_, _, _, _, _)
other_tags_registered(t, tags, Handled, Bases, loader) ==
    IF tags = <<>> THEN t
    ELSE other_tags_registered(
            loader_registered(t, Head(tags), Handled, Bases, loader),
            Tail(tags), Handled, Bases, loader)

\* The tables t after register_loader_saver<Handled, Bases...>(tags,
\* loader, saver).
loader_saver_registered(t, tags, Handled, Bases, loader, saver) ==
    other_tags_registered(
        saver_registered(
            loader_registered(t, tags[1], Handled, Bases, loader),
            tags[1], Handled, saver),
        Tail(tags), Handled, Bases, loader)

\* Registry::register_loader_saver<Handled, Bases...>(tags, loader, saver)
register_loader_saver(tags, Handled, Bases, loader, saver) ==
    /\ tables.nregistered < MaxRegistrations
    /\ tags # <<>>
    /\ tags[1] # <<>>
    /\ \A i \in DOMAIN tags : RLen(tags[i]) <= MAX_TAG_LENGTH
    /\ tables' = [loader_saver_registered(tables, tags, Handled, Bases, loader, saver)
                    EXCEPT !.nregistered = @ + 1]
    /\ UNCHANGED <<muxVars, muxHist, msgVars, vpkgVars, pipeVars, gzVars>>

\* Registry::register_bare_loader_saver_with_header_check<Handled,
\* Bases...>(tag, sniff_header, loader, saver): the wrapped functions under
\* the tag, then the bare loader.
register_bare_loader_saver_with_header_check(tag, Handled, Bases, loader, saver) ==
    /\ tables.nregistered < MaxRegistrations
    /\ tag # <<>>
    /\ RLen(tag) <= MAX_TAG_LENGTH
    /\ tables' =
         [bare_loader_registered(
             loader_saver_registered(tables, <<tag>>, Handled, Bases,
                 wrap_bare_loader(loader), wrap_bare_saver(saver)),
             Handled, Bases, loader)
          EXCEPT !.nregistered = @ + 1]
    /\ UNCHANGED <<muxVars, muxHist, msgVars, vpkgVars, pipeVars, gzVars>>

\* Registry::register_bare_loader_saver_with_magic_and_filename<Handled>(
\* tag, magic, loader, saver): the bare loader, and the wrapped saver under
\* the tag.  No loader is registered for the tag.  register_saver takes
\* one type only, so the call is made without Bases.
register_bare_loader_saver_with_magic_and_filename(tag, Handled, loader, saver) ==
    /\ tables.nregistered < MaxRegistrations
    /\ RLen(tag) <= MAX_TAG_LENGTH
    /\ tag # <<>>
    /\ tables' =
         [saver_registered(
             bare_loader_registered(tables, Handled, {}, loader),
             tag, Handled, wrap_bare_saver(saver))
          EXCEPT !.nregistered = @ + 1]
    /\ UNCHANGED <<muxVars, muxHist, msgVars, vpkgVars, pipeVars, gzVars>>

RegNext ==
    \/ \E tag \in RegistryTags, Handled \in Types, loader \in Adapters :
         \E Bases \in SUBSET (Types \ {Handled}) :
            register_loader(tag, Handled, Bases, loader)
    \/ \E Handled \in Types, loader \in Adapters :
         \E Bases \in SUBSET (Types \ {Handled}) :
            register_bare_loader_with_filename(Handled, Bases, loader)
    \/ \E tag \in RegistryTags, Handled \in Types, saver \in Adapters :
         register_saver(tag, Handled, saver)

\* The calls of the Registry's public interface.
RegPublicNext ==
    \/ \E Message \in ProtobufMessages, tag \in ProtobufTags :
         register_protobuf(Message, tag)
    \/ \E tag \in RegistryTags, Handled \in Types, loader \in Adapters :
         \E Bases \in SUBSET (Types \ {Handled}) :
            register_loader(tag, Handled, Bases, loader)
    \/ \E tags \in TagLists, Handled \in Types, loader \in Adapters, saver \in Adapters :
         \E Bases \in SUBSET (Types \ {Handled}) :
            register_loader_saver(tags, Handled, Bases, loader, saver)
    \/ \E tag \in {TagA, TagB}, Handled \in Types, loader \in Adapters, saver \in Adapters :
         \E Bases \in SUBSET (Types \ {Handled}) :
            register_bare_loader_saver_with_header_check(tag, Handled, Bases, loader, saver)
    \/ \E tag \in {TagA, TagB}, Handled \in Types, loader \in Adapters, saver \in Adapters :
         register_bare_loader_saver_with_magic_and_filename(tag, Handled, loader, saver)

(***************************************************************************)
(* Initial states                                                          *)
(***************************************************************************)

\* Nothing constructed yet but the multiplexer.
Init == MuxInit /\ MsgInit /\ VpkgIdle /\ FrameIdle /\ PipeIdle /\ GzIdle /\ RegIdle

\* No emitter, nothing read or written yet.
NoEmitter(compress) ==
    /\ emitter = [state |-> "absent", compress |-> compress, group |-> <<>>,
                  group_tag |-> <<>>, max_group_size |-> max_group_size,
                  uncompressed_out_written |-> 0, byte_count |-> 0]
    /\ handler_calls = <<>>
    /\ iter = [state |-> "none"]
    /\ msgHist = [ncalls |-> 0, noversized |-> 0, result |-> "ok", call |-> <<>>,
                  passed |-> <<>>, emitted |-> <<>>,
                  grp |-> 0, decoded |-> <<>>, nreads |-> 0, nseeks |-> 0,
                  sought |-> 0, cached |-> <<>>]

\* An uncompressed file from elsewhere is on the stream; there is no emitter.
FileInit ==
    /\ MuxInit
    /\ NoEmitter(FALSE)
    /\ sink \in {[EmptySink EXCEPT !.raw = f] : f \in FilesOf(MaxGroups)}
    /\ VpkgIdle
    /\ FrameIdle
    /\ PipeIdle
    /\ GzIdle
    /\ RegIdle

\* A file from elsewhere, plain or BGZF, and a registry.
VpkgInit ==
    /\ MuxInit
    /\ PipeIdle
    /\ FrameIdle
    /\ GzIdle
    /\ RegIdle
    /\ \E file \in FileDescs, compress \in BOOLEAN, registry \in Registries :
         /\ ~(file.bare /\ compress)
         /\ NoEmitter(compress)
         /\ sink = FileSink(FileBytes(file), compress)
         /\ vpkg = [state |-> "ready", registry |-> registry, file |-> file,
                    one |-> NotCalled, first |-> NotFirst, sniffed |-> NotSniffed,
                    encapsulated |-> NotEncapsulated]

\* for_each_parallel_impl is called.
PipeInit ==
    MuxInit /\ MsgInit /\ VpkgIdle /\ FrameIdle /\ GzIdle /\ RegIdle /\ PipeStarted

\* paired_for_each_parallel_after_wait is called.
AlnInit ==
    MuxInit /\ MsgInit /\ VpkgIdle /\ FrameIdle /\ GzIdle /\ RegIdle /\ AlnStarted

\* The multiplexer with a ring that is nearly full.
RingInit ==
    RingStarted /\ MsgInit /\ VpkgIdle /\ FrameIdle /\ PipeIdle /\ GzIdle /\ RegIdle

\* emit_group is called.
FrameInit ==
    MuxInit /\ MsgInit /\ VpkgIdle /\ PipeIdle /\ GzIdle /\ RegIdle /\ FrameStarted

\* A BlockedGzipInputStream is to be made on a stream.
GzInit ==
    /\ MuxInit
    /\ NoEmitter(FALSE)
    /\ VpkgIdle
    /\ FrameIdle
    /\ PipeIdle
    /\ RegIdle
    /\ GzStarted

FileNext ==
    \/ IterConstruct
    \/ IterNext

SpecFile == FileInit /\ [][FileNext]_vars

SpecVpkg == VpkgInit /\ [][VpkgNext]_vars

SpecPipe == PipeInit /\ [][PipeNext]_vars

SpecAln == AlnInit /\ [][AlnNext]_vars

SpecFrame == FrameInit /\ [][FrameNext]_vars

SpecRing == RingInit /\ [][RingNext]_vars

SpecGz == GzInit /\ [][GzNextCalls]_vars

SpecReg == Init /\ [][RegNext]_vars

SpecRegPublic == Init /\ [][RegPublicNext]_vars

SpecMsg == Init /\ [][MsgNext]_vars

SpecMux == Init /\ [][MuxNext]_vars

\* The steps producer t takes inside register_breakpoint / register_barrier.
ProducerInCall(t) ==
    \/ ProducerLock(t)
    \/ BreakpointLocked(t)
    \/ BarrierLocked(t)
    \/ BarrierWaitLocked(t)

\* Scheduling: every thread that can take a step keeps being scheduled.  A
\* thread blocked in std::mutex::lock() can step only while the mutex is
\* free, and std::mutex promises nothing about who gets it next.
LiveSpecMux ==
    /\ Init
    /\ [][MuxNext]_vars
    /\ WF_vars(WriterStep)
    /\ \A t \in Threads : WF_vars(ProducerInCall(t))

(***************************************************************************)
(* Properties of the StreamMultiplexer.                                    *)
(*                                                                         *)
(* Every byte carries the identity <<t, w, s>> of the write call it came   *)
(* from: producer t, its w-th write, made while t's segment s (the bytes   *)
(* between two consecutive breakpoints of t) was open.                     *)
(***************************************************************************)

ByteThread(id) == id[1]
ByteWrite(id) == id[2]
ByteSegment(id) == id[3]

\* The runs of backing_stream, by position.
BackingRuns == 1..Len(backing_stream)
BackingId(i) == backing_stream[i][1]

\* C1: the bytes a producer writes between two consecutive breakpoints of
\* its own sit next to each other in the backing stream: between two bytes
\* of one segment of one producer there is no byte of anything else.
C1_SegmentsContiguous ==
    \A i \in BackingRuns : \A k \in BackingRuns :
        (/\ i < k
         /\ ByteThread(BackingId(i)) = ByteThread(BackingId(k))
         /\ ByteSegment(BackingId(i)) = ByteSegment(BackingId(k)))
        => \A j \in i..k :
             /\ ByteThread(BackingId(j)) = ByteThread(BackingId(i))
             /\ ByteSegment(BackingId(j)) = ByteSegment(BackingId(i))

\* C1 witness: while the writer thread runs, the backing stream holds a
\* segment made of two write calls and closed by a breakpoint, and bytes of
\* another producer as well.
C1_Witness ==
    \E i \in BackingRuns : \E k \in BackingRuns : \E j \in BackingRuns :
        /\ ~writer_stop
        /\ i < k
        /\ seg[ByteThread(BackingId(i))] > ByteSegment(BackingId(i))
        /\ ByteThread(BackingId(i)) = ByteThread(BackingId(k))
        /\ ByteSegment(BackingId(i)) = ByteSegment(BackingId(k))
        /\ ByteWrite(BackingId(i)) # ByteWrite(BackingId(k))
        /\ ByteThread(BackingId(j)) # ByteThread(BackingId(i))

\* The bytes of s that producer t wrote in its first b write calls, in order.
RECURSIVE BytesUpTo(_, _, _)
BytesUpTo(s, t, b) ==
    IF s = <<>> THEN <<>>
    ELSE IF ByteThread(Head(s)[1]) = t /\ ByteWrite(Head(s)[1]) <= b
         THEN RCat(<<Head(s)>>, BytesUpTo(Tail(s), t, b))
         ELSE BytesUpTo(Tail(s), t, b)

\* Producer t has returned from a register_barrier call.
BarrierReturned(t) == barrier_seen[t][t] >= 0

\* C2: once register_barrier(t) has returned, everything t had written by
\* then (and not discarded) is in the backing stream, and every byte any
\* producer writes from then on lies behind all of it.
C2_BarrierOrders ==
    \A t \in Threads :
        BarrierReturned(t) =>
            /\ BytesUpTo(backing_stream, t, barrier_seen[t][t])
                 = BytesUpTo(committed[t], t, barrier_seen[t][t])
            /\ \A i \in BackingRuns : \A k \in BackingRuns :
                 (/\ ByteThread(BackingId(i)) = t
                  /\ ByteWrite(BackingId(i)) <= barrier_seen[t][t]
                  /\ ByteWrite(BackingId(k))
                       > barrier_seen[t][ByteThread(BackingId(k))])
                 => i < k

\* C2 witness: while the writer thread runs, a barrier of t has returned
\* after t wrote something, and the backing stream holds a byte another
\* producer wrote after that.
C2_Witness ==
    \E t \in Threads : \E k \in BackingRuns :
        /\ ~writer_stop
        /\ barrier_seen[t][t] >= 1
        /\ ByteThread(BackingId(k)) # t
        /\ ByteWrite(BackingId(k)) > barrier_seen[t][ByteThread(BackingId(k))]

\* The current buffers of producers i, i + 1, ... one after the other.
RECURSIVE StreamsFrom(_)
StreamsFrom(i) ==
    IF i >= max_threads THEN <<>>
    ELSE RCat(StreamContents(i), StreamsFrom(i + 1))

\* The last n bytes of s.
RLast(s, n) == RDrop(s, RLen(s) - n)

\* C3: when the destructor has returned, the bytes of each producer in the
\* backing stream are exactly the bytes it wrote and did not discard, in
\* the order written, and the backing stream ends with the producers'
\* current buffers in producer order, behind everything that was queued.
C3_DestructorFlushesAll ==
    Destroyed =>
        /\ \A t \in Threads :
             BytesUpTo(backing_stream, t, nwrites[t])
               = RCat(committed[t], pending[t])
        /\ RLast(backing_stream, RLen(StreamsFrom(0))) = StreamsFrom(0)

\* C3 witness: the destructor has returned; one producer had bytes queued
\* and bytes in its current buffer, another had bytes in its current buffer.
C3_Witness ==
    /\ Destroyed
    /\ \E t \in Threads : \E u \in Threads :
         /\ t # u
         /\ StreamContents(t) # <<>>
         /\ StreamContents(u) # <<>>
         /\ RLen(RCat(committed[t], pending[t])) > RLen(StreamContents(t))

\* C7: discard_to_breakpoint(t) leaves in t's buffer exactly what was there
\* at t's last breakpoint or barrier, and no byte it discarded is ever in
\* the backing stream.
C7_DiscardToBreakpoint ==
    /\ [](\A i \in BackingRuns : BackingId(i) \notin discarded)
    /\ [][\A t \in Threads :
            DiscardToBreakpoint(t) => StreamContents(t)' = bp_content[t]]_vars

\* C7 witness: the destructor has returned after a producer discarded bytes
\* behind a breakpoint; bytes it wrote before that breakpoint are in the
\* backing stream.
C7_Witness ==
    /\ Destroyed
    /\ \E id \in discarded : \E i \in BackingRuns :
         /\ ByteThread(BackingId(i)) = ByteThread(id)
         /\ ByteWrite(BackingId(i)) < ByteWrite(id)
         /\ bp_content[ByteThread(id)] # <<>>

GroupItems(k) ==
    LET g == msgHist.emitted[k]
    IN  IF g.msgs = <<>>
        THEN <<[tag |-> g.tag, msg |-> <<>>, has_msg |-> FALSE, grp |-> k]>>
        ELSE [i \in 1..Len(g.msgs) |->
                [tag |-> g.tag, msg |-> g.msgs[i], has_msg |-> TRUE, grp |-> k]]

\* What a reader is to deliver for the emitted groups from the k-th on.
RECURSIVE ItemsFrom(_)
ItemsFrom(k) ==
    IF k > Len(msgHist.emitted) THEN <<>>
    ELSE GroupItems(k) \o ItemsFrom(k + 1)

\* Every emitted group has a registered tag and messages of legal size.
LegalGroups ==
    \A k \in 1..Len(msgHist.emitted) :
        /\ msgHist.emitted[k].tag \in RegisteredTags
        /\ \A i \in 1..Len(msgHist.emitted[k].msgs) :
              RLen(msgHist.emitted[k].msgs[i]) <= MAX_MESSAGE_SIZE

\* The reader has gone through the whole file without a seek.
ReadToEnd ==
    /\ iter.state = "open"
    /\ ~has_current(iter)
    /\ msgHist.nseeks = 0

\* C5: round trip.  Groups of registered tags and messages of legal size,
\* written through the emitter in either mode and read back by an iterator
\* from the start of the file, come back as written: the same tags, the
\* same messages in the same order, in the same groups, a group of a tag
\* alone as the tag without a message.  The iterator does not fail on the
\* way, what it has delivered is at every moment the start of what was
\* written, and at the end of the file it is all of it.
C5_RoundTrip ==
    (iter.state # "none" /\ msgHist.nseeks = 0 /\ LegalGroups) =>
        /\ iter.state = "open"
        /\ Len(msgHist.decoded) <= Len(ItemsFrom(1))
        /\ msgHist.decoded = SubSeq(ItemsFrom(1), 1, Len(msgHist.decoded))
        /\ ~has_current(iter) => msgHist.decoded = ItemsFrom(1)

\* C5 witness: a compressed file of three groups, one of a tag alone and
\* one whose message spans BGZF blocks, read back to its end.
C5_Witness ==
    /\ ReadToEnd /\ LegalGroups
    /\ emitter.compress
    /\ Len(sink.blocks) >= 2
    /\ Len(msgHist.emitted) = 3
    /\ \E k \in 1..3 : msgHist.emitted[k].msgs = <<>>
    /\ \E k \in 1..3 : msgHist.emitted[k].msgs = <<MsgBig>>
    /\ msgHist.emitted[1].tag # msgHist.emitted[2].tag
    /\ msgHist.decoded = ItemsFrom(1)

\* The listener calls the emitter is to have made: for each emitted group,
\* in order, one call of each listener with the group's tag and offsets.
ListenerCallsDue ==
    [j \in 1..(NumListeners * Len(msgHist.emitted)) |->
        LET k == ((j - 1) \div NumListeners) + 1
        IN  [listener |-> ((j - 1) % NumListeners) + 1,
             tag |-> msgHist.emitted[k].tag,
             start |-> msgHist.emitted[k].start,
             end |-> msgHist.emitted[k].end]]

\* C6: each listener is called once per emitted group with the group's tag
\* and its start and end offsets; a reader that seek_group()s to the start
\* reported for a group of legal content then delivers that group's
\* messages, in order, and while it stands on one of them tell_group() is
\* that start.
C6_ListenerOffsets ==
    /\ handler_calls = ListenerCallsDue
    /\ (msgHist.sought > 0 /\ LegalGroups) =>
         LET due == GroupItems(msgHist.sought)
             got == msgHist.decoded
         IN  /\ iter.state = "open"
             /\ Len(got) >= 1
             /\ \A i \in 1..Min(Len(got), Len(due)) : got[i] = due[i]
             /\ (Len(got) <= Len(due) /\ has_current(iter)) =>
                   tell_group(iter) = msgHist.emitted[msgHist.sought].start

\* A tag no caller may pass: empty, or longer than MAX_TAG_LENGTH.
IllegalTag(tag) == tag = <<>> \/ RLen(tag) > MAX_TAG_LENGTH

\* C8: a write with an empty tag or a tag of more than MAX_TAG_LENGTH bytes
\* is reported as an error, the emitter does not take the tag as the tag of
\* its group, no group is emitted under it, and no message passed with such
\* a tag is in the buffered group or in an emitted one.
C8_IllegalTagRejected ==
    /\ (Len(msgHist.call) >= 2 /\ msgHist.call[1] = "write"
        /\ IllegalTag(msgHist.call[2])) => msgHist.result = "error"
    /\ RLen(emitter.group_tag) <= MAX_TAG_LENGTH
    /\ \A i \in 1..Len(msgHist.passed) : ~IllegalTag(msgHist.passed[i])
    /\ \A k \in 1..Len(msgHist.emitted) :
          /\ ~IllegalTag(msgHist.emitted[k].tag)
          /\ \A i \in 1..Len(msgHist.emitted[k].passed) :
                ~IllegalTag(msgHist.emitted[k].passed[i])

\* C9: a write of a message of more than MAX_MESSAGE_SIZE bytes fails, and
\* no group that is emitted, by a later write, a flush or the destructor,
\* holds such a message.
C9_NoOversizedWritten ==
    /\ (Len(msgHist.call) = 3 /\ RLen(msgHist.call[3]) > MAX_MESSAGE_SIZE)
          => msgHist.result = "error"
    /\ \A k \in 1..Len(msgHist.emitted) :
          \A i \in 1..Len(msgHist.emitted[k].msgs) :
              RLen(msgHist.emitted[k].msgs[i]) <= MAX_MESSAGE_SIZE

\* The iterator as it stands before a step that reads from where it is.
ReaderBefore == IF iter.state = "none" THEN FreshIter ELSE iter

\* A step of the reader, without a seek, that ends on a message.
ReaderStep ==
    /\ iter.state \in {"none", "open"}
    /\ iter' # iter
    /\ iter'.state = "open"
    /\ has_current(iter')
    /\ msgHist'.nseeks = msgHist.nseeks

\* The count and the first string of the group that starts where the
\* iterator stands.
GroupHead(it) ==
    Only({ Only({ [count |-> count.value,
                   first |-> ReadRaw(size.h, size.value).data] :
                  size \in {ReadVarint(count.h, 5)} }) :
           count \in {ReadVarint(it.handle, 10)} })

\* C10: when the iterator starts a group, the group's first string is taken
\* as its tag if and only if it equals the non-empty tag cached from the
\* previous group or is a registered tag.  Otherwise the iterator delivers
\* the string as a message under the tag "", and each further step in the
\* group delivers a message under the tag the group started with, so the
\* remaining count - 1 strings under "".
C10_TagDecision ==
    [][ReaderStep =>
        LET before == ReaderBefore
        IN  IF before.group_count = before.group_idx
            THEN LET head == GroupHead(before)
                     tagged == \/ /\ before.previous_tag # <<>>
                                  /\ before.previous_tag = head.first
                               \/ head.first \in RegisteredTags
                 IN  /\ iter'.group_count = head.count
                     /\ iter'.group_idx = IF tagged /\ head.count > 1
                                          THEN 2 ELSE 1
                     /\ IF tagged
                        THEN /\ iter'.value.first = head.first
                             /\ iter'.previous_tag = head.first
                             /\ iter'.value.has_second = (head.count # 1)
                        ELSE /\ iter'.value = [first |-> <<>>,
                                               second |-> head.first,
                                               has_second |-> TRUE]
                             /\ iter'.previous_tag = <<>>
            ELSE /\ iter'.value.first = before.previous_tag
                 /\ iter'.value.has_second
                 /\ iter'.previous_tag = before.previous_tag
                 /\ iter'.group_count = before.group_count
                 /\ iter'.group_idx = before.group_idx + 1
    ]_vars

\* C10 witness: a registered tag was taken as a tag, and a group that
\* starts with a string that is no tag was delivered as that string and
\* then its message, both under the tag "".
C10_Witness ==
    /\ iter.state = "open"
    /\ msgHist.nseeks = 0
    /\ Len(msgHist.decoded) = 3
    /\ msgHist.decoded[1].tag = TagA
    /\ msgHist.decoded[2] =
          [tag |-> <<>>, msg |-> TagU, has_msg |-> TRUE, grp |-> 2]
    /\ msgHist.decoded[3] =
          [tag |-> <<>>, msg |-> MsgSmall, has_msg |-> TRUE, grp |-> 2]


\* C11: a group whose count is 0 is a fatal format error: an iterator that
\* has read a count of 0 has failed, so it stands on no tag and no message
\* made of the bytes behind that count.
C11_ZeroCountFatal ==
    (iter.state # "none" /\ iter.group_vo # NoOffset /\ iter.group_count = 0)
        => iter.state = "threw"


\* A file of type-tagged groups: each count is one more than the number of
\* messages that follow the tag, and each tag is a registered one.
TypeTagged(file) ==
    /\ ~file.bare
    /\ \A k \in 1..Len(file.groups) :
         /\ file.groups[k].count = Len(file.groups[k].group) + 1
         /\ is_valid_tag(file.groups[k].tag)

\* C12: try_load_one<T> on a type-tagged stream skips the groups whose tag
\* has no loader for T and loads T from the first group whose tag has one:
\* whenever some group of the stream has a tag that T has a loader for,
\* the call returns a loaded T.
C12_UnhandledGroupsSkipped ==
    (/\ vpkg.one # NotCalled
     /\ TypeTagged(vpkg.file)
     /\ \E k \in 1..Len(vpkg.file.groups) :
          find_loader(vpkg.one.Wanted[1], vpkg.file.groups[k].tag))
        => vpkg.one.result.status = "loaded"

\* C13: the single-type loader is the multi-type loader called with one
\* type: on the same stream and with the same registry, try_load_one<T>
\* returns a loaded object iff try_load_first<T> does.
C13_OneIsFirstOfOne ==
    (/\ vpkg.one # NotCalled
     /\ vpkg.first # NotFirst
     /\ vpkg.first.Wanted = vpkg.one.Wanted)
        => (vpkg.one.result.status = "loaded"
              <=> vpkg.first.results[1].status = "loaded")

\* The bare loaders of a type whose sniff predicate is not null and accepts
\* the stream, by their place in the type's list.
AcceptingBare(Wanted) ==
    {j \in 1..Len(vpkg.registry.type_to_bare_loaders[Wanted]) :
        /\ vpkg.registry.type_to_bare_loaders[Wanted][j] # NoChecker
        /\ RLen(StreamBytes) >= RLen(vpkg.registry.type_to_bare_loaders[Wanted][j])
        /\ RTake(StreamBytes, RLen(vpkg.registry.type_to_bare_loaders[Wanted][j]))
             = vpkg.registry.type_to_bare_loaders[Wanted][j]}

\* The places in the list of wanted types of the types that have such a
\* bare loader.
BareTypes == {i \in 1..Len(vpkg.first.Wanted) : AcceptingBare(vpkg.first.Wanted[i]) # {}}

RECURSIVE ReadAll(_)
ReadAll(it) ==
    IF it.state # "open" \/ ~has_current(it) THEN <<>>
    ELSE Only({ <<[tag |-> it.value.first, has_msg |-> it.value.has_second,
                   msg |-> it.value.second]>> \o ReadAll(next) :
                next \in {advance(it)} })

\* A save has returned; the tag of the saver and the messages it produced.
Saved == vpkg.state = "saved"
SavedTag == msgHist.call[2]
SavedMessages == msgHist.call[3]

\* C15, as the code has it: VPKG::save<T> writes one group under the
\* saver's tag that holds the messages the saver produces (no more than
\* the emitter's max_group_size of them); the group has the tag alone iff
\* the saver produces no message.  The output is never empty, and a reader
\* gets the tag back from it with every message, or alone.
C15_SaveWritesTaggedGroup ==
    Saved =>
      /\ sink.raw # <<>>
      /\ Len(msgHist.emitted) = 1
      /\ msgHist.emitted[1].tag = SavedTag
      /\ msgHist.emitted[1].msgs = SavedMessages
      /\ ReadAll(advance(FreshIter)) =
           IF SavedMessages = <<>>
           THEN <<[tag |-> SavedTag, has_msg |-> FALSE, msg |-> <<>>]>>
           ELSE [k \in 1..Len(SavedMessages) |->
                   [tag |-> SavedTag, has_msg |-> TRUE, msg |-> SavedMessages[k]]]

\* A save that produced no message has written something.
C15_Witness ==
    /\ Saved
    /\ SavedMessages = <<>>
    /\ sink.raw # <<>>

\* C15, as stated: VPKG::save<T> first emits a group of the tag alone and
\* then the messages: the first group written has no messages, whatever
\* the saver produces.
C15_TagOnlyGroupFirst ==
    Saved =>
      /\ msgHist.emitted # <<>>
      /\ msgHist.emitted[1].tag = SavedTag
      /\ msgHist.emitted[1].msgs = <<>>

\* The tags that are valid for the Protobuf type the batch loop was called
\* for: the empty tag, and the tag registered for the type.
RightTag(tag) == tag \in {TagEmpty, TagA}

\* The messages of the input that the callbacks are due, in input order.
DueItem(item) == RightTag(item.tag) /\ item.has_second
DueMessages ==
    [k \in 1..Len(SelectSeq(lambda_calls.input, DueItem)) |->
        SelectSeq(lambda_calls.input, DueItem)[k].id]

\* The callbacks due: lambda2 on the consecutive pairs, lambda1 on an odd
\* last message.
DueCalls ==
    {<<"lambda2", DueMessages[2 * k - 1], DueMessages[2 * k]>> :
        k \in 1..(Len(DueMessages) \div 2)}
    \cup (IF Len(DueMessages) % 2 = 1
          THEN {<<"lambda1", DueMessages[Len(DueMessages)]>>} ELSE {})

\* C16: for_each_parallel_impl delivers every message exactly once.  Under
\* every schedule of the tasks and every outcome of the predicate, no
\* callback runs twice or on anything but a due pair, and when the call
\* has returned lambda2 has run once on each pair (2k, 2k+1) of the
\* messages and lambda1 once on the last message iff their number is odd.
C16_EveryMessageOnce ==
    /\ lambda_calls.made \subseteq DueCalls
    /\ lambda_calls.n = Cardinality(lambda_calls.made)
    /\ main_pc = "done" => lambda_calls.made = DueCalls

\* Five messages in batches of two: the call has returned after two full
\* batches and a final batch of one.
C16_Witness ==
    /\ main_pc = "done"
    /\ batch_size = 2
    /\ Len(DueMessages) = 5
    /\ lambda_calls.n = 3

\* The messages that were put into a batch: those in the batch being
\* filled, in the batches of the tasks, and in the callbacks made.
Batched ==
    (IF batch = NoBatch THEN {} ELSE {batch[k] : k \in 1..Len(batch)})
    \cup UNION {{b[k] : k \in 1..Len(b)} : b \in tasks}
    \cup UNION {{call[k] : k \in 2..Len(call)} : call \in lambda_calls.made}

\* C17: if the first item read has a tag that is not valid for the type,
\* the loop fails once it has read the item and no callback ever runs; if
\* the first item's tag is valid, the loop never fails on a tag, and no
\* message of a later item with another tag gets into a batch.
C17_TagPolicy ==
    lambda_calls.input # <<>> =>
      IF ~RightTag(lambda_calls.input[1].tag)
      THEN /\ Len(message_it) < Len(lambda_calls.input) => main_pc = "threw"
           /\ lambda_calls.n = 0
           /\ Batched = {}
      ELSE /\ main_pc # "threw"
           /\ \A id \in Batched : RightTag(lambda_calls.input[id].tag)

\* The call has returned after it skipped an item with another tag and
\* ran callbacks on the others.
C17_Witness ==
    /\ main_pc = "done"
    /\ lambda_calls.n > 0
    /\ \E i \in 2..Len(lambda_calls.input) :
         /\ ~RightTag(lambda_calls.input[i].tag)
         /\ lambda_calls.input[i].has_second

\* C18: max_batches_outstanding never exceeds 8192, for every even
\* batch_size and every schedule.
C18_CapBounded ==
    main_pc # "idle" => max_batches_outstanding <= max_max_batches_outstanding

\* C19: for every count of 1 or more and every tag length from 1 to
\* MAX_TAG_LENGTH, the first two bytes emit_group writes (the varint of
\* the count, then the varint of the tag length) are not the gzip magic
\* number 0x1F 0x8B.
C19_NoGzipMagic ==
    frame.state = "written" =>
      ~(RLen(frame.bytes) >= 2 /\ RTake(frame.bytes, 2) = GzipMagic)

\* A group of count 31 has been started: its first byte is 0x1F.
C19_Witness ==
    /\ frame.state = "written"
    /\ frame.count = 31
    /\ RTake(frame.bytes, 1) = RTake(GzipMagic, 1)

\* The rest of the bytes after n strings, each with its length in front.
RECURSIVE SkipStrings(_, _)
SkipStrings(bytes, n) ==
    IF n = 0 THEN [ok |-> TRUE, rest |-> bytes]
    ELSE Only({ IF ~size.ok \/ RLen(size.rest) < size.value
                THEN [ok |-> FALSE, rest |-> <<>>]
                ELSE SkipStrings(RDrop(size.rest, size.value), n - 1) :
                size \in {ReadVarintArray(bytes, 5)} })

\* The bytes are groups from end to end: each a count of 1 or more and
\* that many strings, the tag first.
RECURSIVE WellFormed(_)
WellFormed(bytes) ==
    \/ bytes = <<>>
    \/ Only({ /\ count.ok
              /\ count.value >= 1
              /\ Only({ strings.ok /\ WellFormed(strings.rest) :
                        strings \in {SkipStrings(count.rest, count.value)} }) :
              count \in {ReadVarintArray(bytes, 10)} })

\* The stream starts with the start of a group under a registered tag: a
\* count of 1 or more, the tag's length and the tag.
StartsTagged ==
    /\ ~emitter.compress
    /\ ~vpkg.file.bare
    /\ vpkg.file.groups # <<>>
    /\ vpkg.file.groups[1].count >= 1
    /\ vpkg.file.groups[1].tag \in RegisteredTags

RECURSIVE Inflated(_)
Inflated(blocks) ==
    IF blocks = <<>> THEN <<>> ELSE RCat(Head(blocks), Inflated(Tail(blocks)))
Output(compress, s) ==
    IF compress THEN RCat(Inflated(s.blocks), s.block) ELSE s.raw

\* A flush() on an emitter that has adopted a tag and holds no message.
FlushOfLoneTag ==
    /\ EmitterOpen
    /\ emitter.group_tag # <<>>
    /\ emitter.group = <<>>
    /\ msgHist'.ncalls = msgHist.ncalls + 1
    /\ msgHist'.call = <<"flush">>

\* The places in what the reader delivered of the items of the k-th group.
DecodedOf(k) == {i \in 1..Len(msgHist.decoded) : msgHist.decoded[i].grp = k}

\* The reader, going through the file from its start, has delivered for
\* each group of a tag alone at most the one item (tag, no message), and
\* has delivered it once it is past the group.
LoneTagsRead ==
    (iter.state # "none" /\ msgHist.nseeks = 0 /\ LegalGroups) =>
      \A k \in 1..Len(msgHist.emitted) :
        msgHist.emitted[k].msgs = <<>> =>
          /\ Cardinality(DecodedOf(k)) <= 1
          /\ \A i \in DecodedOf(k) :
               /\ msgHist.decoded[i] =
                    [tag |-> msgHist.emitted[k].tag, msg |-> <<>>,
                     has_msg |-> FALSE, grp |-> k]
               /\ i < Len(msgHist.decoded) => msgHist.decoded[i + 1].grp = k + 1
          /\ (~has_current(iter) \/ DecodedOf(k + 1) # {})
                => DecodedOf(k) # {}

\* C21: write(tag) followed by flush(), with no message in the group, puts
\* exactly one group of count 1 into the output: the bytes 1, the tag's
\* length and the tag.  A reader delivers for such a group of a registered
\* tag exactly one item, the tag without a message, and goes on to the next
\* group or the end of the input.
C21_LoneTagRoundTrip ==
    /\ [][FlushOfLoneTag =>
            /\ Output(emitter.compress, sink') =
                 RCat(Output(emitter.compress, sink),
                      RCat(Varint(1), RCat(Varint(RLen(emitter.group_tag)),
                                           emitter.group_tag)))
            /\ emitter'.group_tag = <<>>
            /\ Len(msgHist'.emitted) = Len(msgHist.emitted) + 1]_vars
    /\ []LoneTagsRead

\* write(TagB), flush(), then a message under TagA: the reader has gone
\* through the file and delivered TagB alone, then the message.
C21_Witness ==
    /\ ReadToEnd
    /\ ~emitter.compress
    /\ emitter.uncompressed_out_written = 4
    /\ Len(msgHist.emitted) = 2
    /\ msgHist.emitted[1].tag = TagB
    /\ msgHist.emitted[1].msgs = <<>>
    /\ msgHist.emitted[2].msgs = <<MsgSmall>>
    /\ msgHist.decoded =
         <<[tag |-> TagB, msg |-> <<>>, has_msg |-> FALSE, grp |-> 1],
           [tag |-> TagA, msg |-> MsgSmall, has_msg |-> TRUE, grp |-> 2]>>

\* The first n strings of the bytes, each with its length in front, and
\* the bytes behind them.
RECURSIVE ParseStrings(_, _)
ParseStrings(bytes, n) ==
    IF n = 0 THEN [ok |-> TRUE, strings |-> <<>>, rest |-> bytes]
    ELSE Only({
        IF ~size.ok \/ RLen(size.rest) < size.value
        THEN [ok |-> FALSE, strings |-> <<>>, rest |-> <<>>]
        ELSE Only({ [tail EXCEPT
                       !.strings = <<RTake(size.rest, size.value)>> \o @] :
                    tail \in {ParseStrings(RDrop(size.rest, size.value),
                                           n - 1)} }) :
        size \in {ReadVarintArray(bytes, 5)} })

\* The bytes taken as groups, each a count and that many strings.
RECURSIVE ParseGroups(_)
ParseGroups(bytes) ==
    IF bytes = <<>> THEN [ok |-> TRUE, groups |-> <<>>]
    ELSE Only({
        IF ~count.ok THEN [ok |-> FALSE, groups |-> <<>>]
        ELSE Only({
            IF ~body.ok THEN [ok |-> FALSE, groups |-> <<>>]
            ELSE Only({ [tail EXCEPT
                           !.groups = <<[count |-> count.value,
                                         strings |-> body.strings]>> \o @] :
                        tail \in {ParseGroups(body.rest)} }) :
            body \in {ParseStrings(count.rest, count.value)} }) :
        count \in {ReadVarintArray(bytes, 10)} })

\* C22: whatever calls were made on the emitter, with whatever tags, its
\* output is a sequence of whole groups, one for each group it emitted;
\* each has a count of 1 or more, a tag that is not empty as its first
\* string, and count - 1 messages behind it.  No count of 0 and no tag of
\* length 0 is written.
C22_WireInvariant ==
    \A parsed \in {ParseGroups(Output(emitter.compress, sink))} :
        /\ parsed.ok
        /\ Len(parsed.groups) = Len(msgHist.emitted)
        /\ \A k \in 1..Len(parsed.groups) :
             /\ parsed.groups[k].count >= 1
             /\ parsed.groups[k].count = Len(msgHist.emitted[k].msgs) + 1
             /\ parsed.groups[k].strings[1] # <<>>
             /\ parsed.groups[k].strings[1] = msgHist.emitted[k].tag
             /\ Tail(parsed.groups[k].strings) = msgHist.emitted[k].msgs

\* A message was written under the empty tag, then one under TagA, and the
\* group was emitted: one group of TagA with both messages.
C22_Witness ==
    /\ Len(msgHist.emitted) = 1
    /\ msgHist.emitted[1].passed = <<TagEmpty, TagA>>
    /\ ParseGroups(Output(emitter.compress, sink)).groups =
         <<[count |-> 3, strings |-> <<TagA, MsgSmall, MsgSmall>>]>>

\* The data behind the stream, inflated.
Decompressed ==
    IF gz.compression = "bgzf" THEN Inflated(sink.blocks) ELSE sink.raw

\* C23: the bytes handed out by the Next calls, those given back with
\* BackUp taken off, are at every moment the start of the inflated data,
\* and all of it when Next has reported the end; a Next that follows a
\* BackUp(n) returns n bytes, which are then the n bytes given back.
C23_NextDeliversStream ==
    gz.state = "open" =>
      /\ gz.read = RTake(Decompressed, RLen(gz.read))
      /\ (gz.call[1] = "Next" /\ ~gz.call[2]) => gz.read = Decompressed
      /\ (gz.call[1] = "Next" /\ gz.call[2] /\ gz.call[4] > 0)
            => gz.call[3] = gz.call[4]

\* Next returned the three bytes of a BGZF file's block, BackUp gave two
\* of them back, and the next Next returned those two.
C23_Witness ==
    /\ gz.state = "open"
    /\ gz.compression = "bgzf"
    /\ Len(sink.blocks) = 1
    /\ gz.ncalls = 3
    /\ gz.tell = <<>>
    /\ gz.backed_up = 2
    /\ gz.returned = 5
    /\ gz.call = <<"Next", TRUE, 2, 2>>
    /\ gz.read = Decompressed

\* C24: ByteCount() is the sum of the sizes Next returned less the sum of
\* the counts given to BackUp.
C24_ByteCountNet ==
    gz.state = "open" => gz.byte_count = gz.returned - gz.backed_up

\* The stream can tell where it is and is in a good state.
Seekable == gz.file_start >= 0 /\ gz.good

IsPrefix(a, b) == Len(a) <= Len(b) /\ a = SubSeq(b, 1, Len(a))

\* C26: no registration removes or replaces an entry a lookup returns: a
\* loader found for a tag and type, the saver of a type and the bare
\* loaders of a type stay what they were (the bare loaders with what was
\* added behind them).
C26_AppendOnly ==
    [][\A type \in Types :
          /\ \A tag \in RegistryTags :
                find_loader_in(tables, type, tag) # 0 =>
                    find_loader_in(tables', type, tag)
                        = find_loader_in(tables, type, tag)
          /\ find_saver(tables, type) # <<>> =>
                find_saver(tables', type) = find_saver(tables, type)
          /\ IsPrefix(find_bare_loaders(tables, type),
                      find_bare_loaders(tables', type))
      ]_vars

\* C27: a discard_bytes call of producer t moves t's write position back by
\* the lesser of its count and the number of bytes t wrote since its last
\* breakpoint (here: by as many bytes as the call takes off what t has
\* pending), so not to before the breakpoint cursor, not to before the start
\* of the buffer, and never forward; what is in the buffer up to the new
\* position stays, and no other thread's buffer is touched.  (The bytes a
\* thread has pending are those behind its breakpoint cursor whenever the
\* thread is not inside a call.)
C27_DiscardBytesClamped ==
    [][ndiscards' = ndiscards + 1 =>
          \A t \in Threads :
             /\ tellp(t)' <= tellp(t)
             /\ tellp(t)' >= thread_breakpoint_cursors[t]
             /\ tellp(t)' >= 0
             /\ tellp(t) - tellp(t)' = RLen(pending[t]) - RLen(pending'[t])
             /\ pc[t] = "idle" =>
                  RLen(pending[t]) = tellp(t) - thread_breakpoint_cursors[t]
             /\ StreamContents(t)' = RTake(StreamContents(t), tellp(t)')
             /\ thread_breakpoint_cursors'[t] = thread_breakpoint_cursors[t]
      ]_vars

\* A producer wrote a byte, registered a breakpoint, wrote two more bytes
\* and called discard_bytes with a count greater than two: it stands at the
\* breakpoint.
C27_Witness ==
    \E t \in Threads :
       /\ ndiscards = 1
       /\ discarded = {}
       /\ nwrites[t] = 3
       /\ thread_breakpoint_cursors[t] = 1
       /\ tellp(t) = 1
       /\ pending[t] = <<>>
       /\ committed[t] = RRun(<<t, 1, 0>>, 1)

\* A step in which producer t calls register_breakpoint: it goes for the
\* lock, or closes a segment or moves its breakpoint cursor and returns.
BreakpointCalled(t) ==
    /\ pc[t] = "idle"
    /\ \/ pc'[t] = "bp_lock"
       \/ /\ pc'[t] = "idle"
          /\ \/ committed'[t] # committed[t]
             \/ thread_breakpoint_cursors'[t] # thread_breakpoint_cursors[t]

\* The step in which register_breakpoint of producer t, holding the lock
\* on a ring that is not full, queues the buffer.
BreakpointQueued(t) == pc[t] = "bp_locked" /\ pc'[t] = "idle"

\* C28: register_breakpoint(t) goes on to queue the buffer iff the buffer
\* holds MIN_QUEUE_ITEM_BYTES or more up to the write position, which is
\* when want_breakpoint(t) is true just before the call.  If so, the
\* buffer up to the write position becomes one item of t's ring, the
\* buffer is made empty and the breakpoint cursor 0.  If not, the call
\* sets the breakpoint cursor to the write position and leaves the buffer
\* and the rings as they are.
C28_BreakpointQueues ==
    [][\A t \in Threads :
          /\ BreakpointCalled(t) =>
               IF want_breakpoint(t)
               THEN /\ pc'[t] = "bp_lock"
                    /\ UNCHANGED <<thread_streams, thread_breakpoint_cursors,
                                   thread_queues, thread_queue_empty_slots,
                                   thread_queue_byte_counts>>
               ELSE /\ pc'[t] = "idle"
                    /\ thread_breakpoint_cursors'[t] = tellp(t)
                    /\ UNCHANGED <<thread_streams, thread_queues,
                                   thread_queue_empty_slots,
                                   thread_queue_filled_slots,
                                   thread_queue_byte_counts>>
          /\ BreakpointQueued(t) =>
               /\ tellp(t) >= MIN_QUEUE_ITEM_BYTES
               /\ thread_queues'[t][thread_queue_empty_slots[t]]
                     = StreamContents(t)
               /\ RingCount(t)' = RingCount(t) + 1
               /\ thread_queue_byte_counts'[t]
                     = thread_queue_byte_counts[t] + tellp(t)
               /\ thread_streams'[t] = EmptyStream
               /\ thread_breakpoint_cursors'[t] = 0
      ]_vars

\* A producer wrote MIN_QUEUE_ITEM_BYTES bytes and one more and registered
\* a breakpoint, which queued them as one item; another wrote one byte and
\* registered a breakpoint, which moved its cursor only.
C28_Witness ==
    \E t, u \in Threads :
       /\ nbarriers = 0
       /\ pc[t] = "idle"
       /\ thread_queue_byte_counts[t] = MIN_QUEUE_ITEM_BYTES + 1
       /\ RLen(thread_queues[t][thread_queue_filled_slots[t]])
             = MIN_QUEUE_ITEM_BYTES + 1
       /\ RingCount(t) = 1
       /\ thread_streams[t] = EmptyStream
       /\ thread_breakpoint_cursors[t] = 0
       /\ tellp(u) = 1
       /\ thread_breakpoint_cursors[u] = 1
       /\ RingCount(u) = 0

\* A step of the batch loop in which a batch was filled and counted.
BatchFilled ==
    main_pc = "loop" /\ batches_outstanding' = batches_outstanding + 1

\* C29: a batch goes to a task only if the batches outstanding, this one
\* included, are fewer than max_batches_outstanding and parallel_allowed()
\* was true for it (do_single_threaded holds its negation); every other
\* batch is kept by the main thread, which reads nothing more until it
\* has run it.  So a batch for which parallel_allowed() was false is run
\* by the main thread.
C29_DispatchRule ==
    [][/\ BatchFilled =>
            /\ main_pc' = "loop" =>
                 /\ batches_outstanding' < max_batches_outstanding
                 /\ ~do_single_threaded'
            /\ main_pc' # "loop" =>
                 /\ main_pc' = "batch"
                 /\ \/ batches_outstanding' >= max_batches_outstanding
                    \/ do_single_threaded'
            /\ do_single_threaded' => main_pc' = "batch"
       /\ main_pc = "batch" =>
            /\ more_data' = more_data
            /\ batches_outstanding' <= batches_outstanding
            /\ main_pc' \in {"batch", "loop"}
      ]_vars

\* With batches of 2 the cap was 2, then 4; three batches went to tasks
\* that have not run yet, and the fourth, for which parallel_allowed()
\* was true, is kept by the main thread because it reaches the cap.
C29_Witness ==
    /\ batch_size = 2
    /\ max_batches_outstanding = 4
    /\ batches_outstanding = 4
    /\ main_pc = "batch"
    /\ ~do_single_threaded
    /\ more_data

\* The step in which the main thread has finished the batch it kept.
InlineBatchDone == main_pc = "batch" /\ main_pc' = "loop"

\* C30: max_batches_outstanding changes only in the step in which the
\* main thread has finished a batch it ran itself; it then doubles iff
\* floor(4 * b / 3) < max_batches_outstanding for the b batches
\* outstanding after that batch was taken off,
\* max_batches_outstanding < 8192, and the batch was not kept because
\* parallel_allowed() was false; else it stays.  It never decreases, and
\* a task that finishes leaves it alone.
C30_DoublingRule ==
    [][/\ max_batches_outstanding' # max_batches_outstanding => InlineBatchDone
       /\ InlineBatchDone =>
            /\ batches_outstanding' = batches_outstanding - 1
            /\ max_batches_outstanding' =
                 IF /\ (4 * batches_outstanding') \div 3 < max_batches_outstanding
                    /\ max_batches_outstanding < 8192
                    /\ ~do_single_threaded
                 THEN 2 * max_batches_outstanding
                 ELSE max_batches_outstanding
       /\ max_batches_outstanding' >= max_batches_outstanding
      ]_vars

\* With batches of 2 the cap went from 2 to 4 and, after a task had
\* finished while the main thread ran the batch it kept at the cap, to 8.
C30_Witness ==
    /\ batch_size = 2
    /\ max_batches_outstanding = 8
    /\ batches_outstanding = 2
    /\ main_pc = "loop"
    /\ more_data

\* A step in which seek_group is called with the start of the group
\* named by msgHist'.sought and does not find itself there already.
SeekMoved ==
    /\ msgHist'.nseeks = msgHist.nseeks + 1
    /\ ~(iter.group_idx = 0
         /\ iter.group_vo = msgHist.emitted[msgHist'.sought].start)

\* The iterator as seek_group has it when it calls advance().
Sought ==
    [iter EXCEPT !.handle = Seek(@, msgHist.emitted[msgHist'.sought].start),
                 !.group_count = 0, !.group_idx = 0]

\* C31: seek_group(vo) resets the group counters and leaves previous_tag
\* as it is.  All the same, when the seek has read a group at the target,
\* the group's first string is taken as the tag iff the registry holds it
\* valid, whatever the iterator read before: but for previous_tag the
\* iterator is left as one whose cached tag had been cleared.
C31_SeekJudgesByRegistry ==
    [][SeekMoved =>
         /\ Sought.previous_tag = iter.previous_tag
         /\ [iter' EXCEPT !.previous_tag = <<>>]
               = [advance([Sought EXCEPT !.previous_tag = <<>>])
                    EXCEPT !.previous_tag = <<>>]
         /\ (iter'.state = "open" /\ has_current(iter')) =>
              LET head == GroupHead(Sought)
              IN  /\ iter'.group_count = head.count
                  /\ IF is_valid_tag(head.first)
                     THEN /\ iter'.value.first = head.first
                          /\ iter'.value.has_second = (head.count # 1)
                          /\ iter'.previous_tag = head.first
                     ELSE /\ iter'.value = [first |-> <<>>,
                                            second |-> head.first,
                                            has_second |-> TRUE]
                          /\ iter'.previous_tag = <<>>
    ]_vars

\* The iterator had read a group tagged TagA and cached the tag, then
\* sought back to the first group, whose first string TagU is no tag, and
\* delivered it as a message.
C31_Witness ==
    /\ msgHist.nseeks = 1
    /\ msgHist.sought = 1
    /\ msgHist.cached = TagA
    /\ Len(msgHist.emitted) >= 2
    /\ msgHist.emitted[1].tag = TagU
    /\ iter.state = "open"
    /\ iter.value = [first |-> <<>>, second |-> TagU, has_second |-> TRUE]
    /\ iter.previous_tag = <<>>
    /\ iter.group_idx = 1

\* C31 as stated: seek_group clears previous_tag along with the group
\* counters, so that advance() is called with no cached tag.
C31_SeekClearsTag ==
    [][SeekMoved => Sought.previous_tag = <<>>]_vars

\* A file of groups in which each count is one more than the number of
\* messages that follow the first string.
CountsRight(file) ==
    /\ ~file.bare
    /\ \A k \in 1..Len(file.groups) :
         file.groups[k].count = Len(file.groups[k].group) + 1

\* The items of such groups, in file order: under a valid tag the group's
\* messages, or the tag alone when there is none; of a group whose first
\* string is no valid tag, that string and then the messages, under "".
RECURSIVE FileItems(_)
FileItems(groups) ==
    IF groups = <<>> THEN <<>>
    ELSE LET g == Head(groups)
         IN  (IF ~is_valid_tag(g.tag)
              THEN <<[tag |-> <<>>, has_msg |-> TRUE, msg |-> g.tag]>>
                   \o [i \in 1..Len(g.group) |->
                         [tag |-> <<>>, has_msg |-> TRUE, msg |-> g.group[i]]]
              ELSE IF g.group = <<>>
              THEN <<[tag |-> g.tag, has_msg |-> FALSE, msg |-> <<>>]>>
              ELSE [i \in 1..Len(g.group) |->
                      [tag |-> g.tag, has_msg |-> TRUE, msg |-> g.group[i]]])
             \o FileItems(Tail(groups))

\* The number of items at the head of the sequence that carry the tag of
\* the first.
RECURSIVE LeadingRun(_, _)
LeadingRun(items, tag) ==
    IF items = <<>> \/ Head(items).tag # tag THEN 0
    ELSE 1 + LeadingRun(Tail(items), tag)

\* The messages of the items that have one.
RECURSIVE Payloads(_)
Payloads(items) ==
    IF items = <<>> THEN <<>>
    ELSE (IF Head(items).has_msg THEN <<Head(items).msg>> ELSE <<>>)
         \o Payloads(Tail(items))

\* C32: try_load_encapsulated<T>(it), on a file whose counts are right:
\* when the tag of the current item has no loader for T the call returns
\* null and leaves the iterator where it was; otherwise the loader gets, in
\* file order, the messages of the longest run of items from the current
\* one on that carry its tag (an item that is a tag alone gives none), and
\* the iterator is left on the first item with another tag, or at the end:
\* what follows is still to be read, and the call does not fail.
C32_LoadsLeadingRun ==
    (vpkg.encapsulated # NotEncapsulated /\ CountsRight(vpkg.file)) =>
       LET call == vpkg.encapsulated
           items == FileItems(vpkg.file.groups)
       IN  /\ ReadAll(call.before) = items
           /\ IF items = <<>> \/ ~find_loader(call.Wanted, items[1].tag)
              THEN /\ call.result = Null
                   /\ call.after = call.before
              ELSE LET n == LeadingRun(items, items[1].tag)
                   IN  /\ call.result
                            = Loaded(call.Wanted, 0,
                                     Payloads(SubSeq(items, 1, n)))
                       /\ call.after.state = "open"
                       /\ ReadAll(call.after)
                            = SubSeq(items, n + 1, Len(items))

\* A file of a group tagged TagA and a group tagged TagB, each with one
\* message: the loader of type 1 got the message of the first, and the
\* iterator stands on the message of the second.
C32_Witness ==
    /\ vpkg.encapsulated.Wanted = 1
    /\ vpkg.file.groups
         = <<[count |-> 2, tag |-> TagA, group |-> <<MsgSmall>>],
             [count |-> 2, tag |-> TagB, group |-> <<MsgSmall>>]>>
    /\ vpkg.encapsulated.result = Loaded(1, 0, <<MsgSmall>>)
    /\ vpkg.encapsulated.after.value
         = [first |-> TagB, second |-> MsgSmall, has_second |-> TRUE]

\* C33: no group the emitter has emitted carries more than max_group_size
\* messages, and the group it buffers never holds more than
\* max_group_size messages after a write: a group that has reached the
\* cap is emitted by the next write before its message is taken.
C33_GroupSizeCapped ==
    emitter.state \in {"open", "destroyed"} =>
       /\ \A k \in 1..Len(msgHist.emitted) :
            Len(msgHist.emitted[k].msgs) <= emitter.max_group_size
       /\ Len(emitter.group) <= emitter.max_group_size

\* The items queued in t's ring from the n-th on, oldest first, as one
\* string of bytes.
RECURSIVE RingBytesFrom(_, _)
RingBytesFrom(t, n) ==
    IF n >= RingCount(t) THEN <<>>
    ELSE RCat(thread_queues[t][(thread_queue_filled_slots[t] + n)
                                  % RING_BUFFER_SIZE],
              RingBytesFrom(t, n + 1))

\* The writer thread is between its peek and its pop on t's ring.
WriterReads(t) == w_i = t /\ w_pc \in {"write", "relock", "relocked"}

\* The writer thread has written the item it peeked at and not yet popped it.
WriterWrote(t) == w_i = t /\ w_pc \in {"relock", "relocked"}

\* What producer t has had taken from its ring, followed by what is still
\* to be taken from it.
TakenAndQueued(t) ==
    RCat(BytesUpTo(backing_stream, t, nwrites[t]),
         RingBytesFrom(t, IF WriterWrote(t) THEN 1 ELSE 0))

\* C34: each producer's ring holds 0 to RING_BUFFER_SIZE - 1 items and is
\* never full and empty at once; an item is pushed only onto a ring that
\* is not full and makes it one longer, an item is peeked at or popped
\* only on a ring that is not empty and the pop makes it one shorter; and
\* the items leave in the order they were pushed: what was taken from a
\* ring and what is queued in it, oldest first, is the start of what the
\* producer wrote, in the order written.
C34_RingInvariant ==
    /\ [](\A t \in Threads :
            /\ RingCount(t) \in 0..(RING_BUFFER_SIZE - 1)
            /\ ~(ring_buffer_full(t) /\ ring_buffer_empty(t))
            /\ ring_buffer_full(t) <=> RingCount(t) = RING_BUFFER_SIZE - 1
            /\ ring_buffer_empty(t) <=> RingCount(t) = 0
            /\ WriterReads(t) => RingCount(t) > 0
            /\ w_pc \notin {"drain_streams", "done"} =>
                 RTake(RCat(committed[t], pending[t]), RLen(TakenAndQueued(t)))
                   = TakenAndQueued(t))
    /\ [][\A t \in Threads :
            /\ thread_queue_empty_slots'[t] # thread_queue_empty_slots[t] =>
                 /\ RingCount(t) < RING_BUFFER_SIZE - 1
                 /\ RingCount(t)' = RingCount(t) + 1
                 /\ thread_queue_filled_slots'[t] = thread_queue_filled_slots[t]
            /\ thread_queue_filled_slots'[t] # thread_queue_filled_slots[t] =>
                 /\ RingCount(t) > 0
                 /\ RingCount(t)' = RingCount(t) - 1
                 /\ thread_queue_empty_slots'[t] = thread_queue_empty_slots[t]
                 /\ thread_queues'[t] = thread_queues[t]
      ]_vars

\* The ring of producer 0 holds RING_BUFFER_SIZE - 1 items across the
\* wrap of its cursors, the oldest of them taken by the writer thread
\* before; the producer holds the lock to push one more and finds the
\* ring full.
C34_Witness ==
    /\ RingCount(0) = RING_BUFFER_SIZE - 1
    /\ ring_buffer_full(0)
    /\ thread_queue_filled_slots[0] = 6
    /\ thread_queue_empty_slots[0] = 5
    /\ pc[0] = "bp_locked"
    /\ backing_stream # <<>>

\* C35: while the writer thread is between its peek and its pop on a
\* ring, reading the item outside the lock, the producer of the ring
\* does not write to the slot that item is in: a push goes to another
\* slot, and the slot and what it holds stay as they are until the pop.
C35_NoSlotRace ==
    [][\A t \in Threads :
         WriterReads(t) =>
            /\ thread_queue_empty_slots'[t] # thread_queue_empty_slots[t] =>
                 thread_queue_empty_slots[t] # thread_queue_filled_slots[t]
            /\ thread_queues'[t][thread_queue_filled_slots[t]]
                 = ring_buffer_peek(t)
            /\ WriterReads(t)' =>
                 thread_queue_filled_slots'[t] = thread_queue_filled_slots[t]
            /\ w_pc = "write" =>
                 backing_stream' \in {backing_stream,
                                      RCat(backing_stream, ring_buffer_peek(t))}
      ]_vars

\* The writer thread is writing out the oldest item of producer 0's ring
\* while the producer, having pushed the item that filled the ring, holds
\* the lock to push another.
C35_Witness ==
    /\ w_i = 0
    /\ w_pc = "write"
    /\ pc[0] = "bp_locked"
    /\ nwrites[0] = 2
    /\ RingCount(0) = RING_BUFFER_SIZE - 1
    /\ thread_queue_filled_slots[0] = 5

\* The batches held by tasks: those outstanding but for the one the main
\* thread is running itself.
BatchesInTasks ==
    batches_outstanding - (IF main_pc = "batch" THEN 1 ELSE 0)

GroupReader ==
    IF msgHist'.nseeks # msgHist.nseeks THEN Sought ELSE ReaderBefore

\* A step of the reader that starts a group and ends on its tag or on a
\* message.
GroupStarted ==
    /\ iter.state \in {"none", "open"}
    /\ iter' # iter
    /\ iter'.state = "open"
    /\ has_current(iter')
    /\ GroupReader.group_count = GroupReader.group_idx

\* C37: the tag the iterator has cached is empty or one the registry
\* holds valid, so that the iterator takes the first string of a group as
\* the tag, by the cached tag or by the registry, exactly when the
\* registry alone holds it valid.
C37_CachedTagValid ==
    /\ [](iter.state # "none" =>
            (iter.previous_tag = <<>> \/ is_valid_tag(iter.previous_tag)))
    /\ [][GroupStarted =>
            LET first == GroupHead(GroupReader).first
            IN  /\ is_tag(GroupReader.previous_tag, first)
                      <=> is_valid_tag(first)
                /\ iter'.previous_tag
                      = (IF is_valid_tag(first) THEN first ELSE <<>>)
       ]_vars

\* The iterator, TagA cached from the first group, has started the second
\* group, whose first string is TagA again, and stands on its message.
C37_Witness ==
    /\ iter.state = "open"
    /\ msgHist.nseeks = 0
    /\ Len(msgHist.emitted) >= 2
    /\ msgHist.emitted[1].tag = TagA
    /\ msgHist.emitted[2].tag = TagA
    /\ msgHist.emitted[2].msgs # <<>>
    /\ Len(msgHist.decoded) >= 2
    /\ msgHist.decoded[Len(msgHist.decoded)].grp = 2
    /\ iter.previous_tag = TagA

\* A Protobuf type is registered once register_protobuf has been called
\* for it: the first call makes its entry of protobuf_to_tag.
RegisteredProtobuf(Message) == tables.protobuf_to_tag[Message] # <<>>

\* C38: after any register_protobuf calls, the tag that
\* get_protobuf_tag<M>() gives for a registered message type M passes
\* check_protobuf_tag<M>.
C38_TagTablesConsistent ==
    \A Message \in ProtobufMessages :
        RegisteredProtobuf(Message) =>
            check_protobuf_tag_in(tables, Message, get_protobuf_tag(tables, Message))

\* C39: after any calls of the public register_* functions, a type that
\* find_saver<T>() finds a tag and saver for has a loader that
\* find_loader<T>(tag) finds for that tag.
C39_SaverImpliesLoader ==
    \A type \in Types :
        find_saver(tables, type) # <<>> =>
            find_loader_in(tables, type, find_saver(tables, type)[1]) # 0
====
